---- MODULE Spec2Model ----
(***************************************************************************)
(* Liquidations live fan-out and refresh engine of LiquidTerminal_Back.    *)
(*                                                                         *)
(*   SSEManagerService   (services/liquidations/sse-manager.service.ts,    *)
(*                        kept as src/unnamed/part_003)                    *)
(*   GET /liquidations/stream (routes/liquidations, src/unnamed/part_004)  *)
(*   LiquidationsService (src/src/services/liquidations/...service.ts)     *)
(*                                                                         *)
(* Three specifications share the variables:                               *)
(*   Spec           the stream: attach, resume replay, broadcast, detach   *)
(*   SpecAdmission  the registry under many attach requests                *)
(*   SpecRefresh    the background refresh loop                            *)
(***************************************************************************)
EXTENDS Integers, Sequences, FiniteSets, TLC

(***************************************************************************)
(* Bounds of the model.                                                    *)
(***************************************************************************)
MaxTid == 2                  \* events tid 1..MaxTid exist upstream at most
MaxStreamRequests == 2       \* GET /stream requests in Spec
MaxAdmissionRequests == 6    \* GET /stream requests in SpecAdmission
MaxBroadcasts == 2           \* calls of broadcastNewLiquidations
MaxTicks == 3                \* timer ticks of the refresh loop
MaxClock == 600              \* seconds of clock the timed specification covers
MaxReads == 2                \* calls of the read endpoints
MaxDeliveryRequests == 2     \* GET /stream requests in SpecDelivery
MaxHeartbeats == 1           \* heartbeat timer callbacks
MaxDetaches == 2             \* close / error handler calls per request
MaxUpstreamRequests == 4     \* upstream fetches in SpecCircuit
MaxEvents == 2               \* events of a list handed to the derived-view builder
MaxClockSkew == 1            \* ms between the two clock reads of a build
MaxBacklog == 5              \* events the upstream holds after a burst
MaxInitializeCalls == 3      \* calls of SSEManagerService.initialize in SpecInitialize
PageLimit == 1               \* page size of the refresh fetch (limit: 1000 in the source)
\* MAX_TOTAL_CONNECTIONS is 1000 in the source (part_003:31); it is scaled so
\* that the server-wide limit is reachable with two IPs of three sessions each.
MAX_TOTAL_CONNECTIONS == 4
\* MISSED_DATA_LIMIT is 100 in the source (part_003:34); it is scaled so that a
\* burst of MaxBacklog events exceeds it.
MISSED_DATA_LIMIT == 3

(***************************************************************************)
(* Program constants.                                                      *)
(***************************************************************************)
MAX_CONNECTIONS_PER_IP == 3
MAX_PAGES_FOR_STATS == 5
DATA_CACHE_TTL == 180            \* seconds
STATS_CACHE_TTL == 180           \* seconds
REFRESH_INTERVAL_MS == 300000
INITIAL_REFRESH_DELAY_MS == 5000

REDIS_CHANNEL == "liquidations:sse:broadcast"
LAST_TID_KEY == "liquidations:sse:lastTid"
ALL_DATA_KEY == "liquidations:all-data"
STATS_WRITE_KEY == "liquidations:stats"
STATS_READ_KEY == "liquidations:stats:all"
RECENT_1H_KEY == "liquidations:recent:1h:100"
\* the chart periods of PERIOD_CONFIG and the key getChartData reads
Periods == {"2h", "4h", "8h", "12h", "24h"}
getChartCacheKey(period) ==
    CASE period = "2h" -> "liquidations:chart:2h"
      [] period = "4h" -> "liquidations:chart:4h"
      [] period = "8h" -> "liquidations:chart:8h"
      [] period = "12h" -> "liquidations:chart:12h"
      [] period = "24h" -> "liquidations:chart:24h"
ChartKeys == {getChartCacheKey(p) : p \in Periods}
RedisKeys == {LAST_TID_KEY, ALL_DATA_KEY, STATS_WRITE_KEY, STATS_READ_KEY, RECENT_1H_KEY}
                 \cup ChartKeys

(***************************************************************************)
(* Optional values (T | null | undefined).                                 *)
(***************************************************************************)
None == <<>>
Some(v) == <<v>>
IsSome(o) == o # <<>>
Val(o) == o[1]

(***************************************************************************)
(* The events the upstream indexer holds: tid 1, 2, 3, ... in publication  *)
(* order. An event is immutable, so the model passes tids around and looks *)
(* the other fields up here. Strings that the code compares by character   *)
(* (toUpperCase) are sequences of characters.                              *)
(***************************************************************************)
Ips == {"X", "Y"}

BTC == <<"B", "T", "C">>
ETH == <<"E", "T", "H">>
btc == <<"b", "t", "c">>
UserA == <<"0", "x", "A">>
UserB == <<"0", "x", "B">>
usera == <<"0", "x", "a">>

ALT == <<"A", "L", "T">>
NA == <<"N", "/", "A">>

\* Date.prototype.getTime of new Date(time) and Date.prototype.toISOString:
\* a time string "....-..-..T10:28:36" is <<day, hour, minute, second>>, the
\* days counted from the day before the model's clock starts; an ISO string
\* with milliseconds has them as a fifth component
getTime(time) ==
    (((time[1] * 24 + time[2]) * 60 + time[3]) * 60 + time[4]) * 1000
        + (IF Len(time) > 4 THEN time[5] ELSE 0)
toISOString(ms) ==
    <<ms \div 86400000, (ms \div 3600000) % 24, (ms \div 60000) % 60,
      (ms \div 1000) % 60, ms % 1000>>
\* the time string of the upstream API, to the second
TimeString(ms) == SubSeq(toISOString(ms), 1, 4)

\* the value of Date.now() when a refresh pass builds the derived views
Now0 == 172800000

\* notional_total is in thousandths of a dollar
Liquidation(t) ==
    [ tid |-> t,
      coin |-> IF t % 2 = 1 THEN BTC ELSE ETH,
      notional_total |-> 5 * t,
      liquidated_user |-> IF t % 3 = 1 THEN UserA ELSE UserB,
      liq_dir |-> IF t % 2 = 1 THEN "Long" ELSE "Short",
      time |-> TimeString(Now0 - 60000 * t),
      time_ms |-> Now0 - 60000 * t ]

\* String.prototype.toUpperCase on the characters the model uses
UpperChar(c) ==
    CASE c = "a" -> "A" [] c = "b" -> "B" [] c = "c" -> "C" [] c = "e" -> "E"
      [] c = "h" -> "H" [] c = "t" -> "T" [] c = "x" -> "X" [] OTHER -> c
toUpperCase(s) == [i \in DOMAIN s |-> UpperChar(s[i])]

\* Number.prototype.toString and parseInt(s, 10) on non-negative integers:
\* a decimal string is its sequence of digits
RECURSIVE toString(_)
toString(n) == IF n < 10 THEN <<n>> ELSE Append(toString(n \div 10), n % 10)
RECURSIVE parseInt(_)
parseInt(s) == IF Len(s) = 1 THEN s[1]
               ELSE 10 * parseInt(SubSeq(s, 1, Len(s) - 1)) + s[Len(s)]

Max(S) == CHOOSE m \in S : \A x \in S : x <= m
Range(s) == {s[i] : i \in DOMAIN s}
\* the elements of a set of integers as a sequence, ascending / descending
RECURSIVE Asc(_)
Asc(S) == IF S = {} THEN <<>> ELSE Append(Asc(S \ {Max(S)}), Max(S))
RECURSIVE Desc(_)
Desc(S) == IF S = {} THEN <<>> ELSE <<Max(S)>> \o Desc(S \ {Max(S)})
\* Array.prototype.sort((a, b) => a.tid - b.tid): stable insertion by tid
RECURSIVE InsertByTid(_, _)
InsertByTid(s, t) ==
    IF s = <<>> THEN <<t>>
    ELSE IF s[Len(s)] <= t THEN Append(s, t)
    ELSE Append(InsertByTid(SubSeq(s, 1, Len(s) - 1), t), s[Len(s)])
RECURSIVE SortByTid(_)
SortByTid(s) == IF s = <<>> THEN <<>>
                ELSE InsertByTid(SortByTid(SubSeq(s, 1, Len(s) - 1)), s[Len(s)])

Without(f, k) == IF DOMAIN f \ {k} = {} THEN <<>> ELSE [x \in DOMAIN f \ {k} |-> f[x]]

VARIABLES
    upstreamTid,        \* the upstream holds the events 1..upstreamTid
    redis,              \* the key-value cache: key -> None | Some(value)
    channel,            \* messages published on REDIS_CHANNEL, not yet handled here
    handled,            \* the tids of the messages this process has handled so far
    clients,            \* SSEManagerService.clients: id -> SSEClient
    ipConnectionCount,  \* SSEManagerService.ipConnectionCount: ip -> count
    responses,          \* the HTTP response of every /stream request: id -> what was written
    writeFails,         \* responses whose res.write throws (socket destroyed)
    writeStalls,        \* responses whose res.write returns false (the client does not read)
    heartbeats,         \* heartbeat timer callbacks so far
    detaches,           \* id -> calls of removeClient(id) by the close / error handlers
    replays,            \* sendMissedLiquidations calls suspended at an await
    nextReq,            \* number of the next /stream request (stands for randomUUID)
    bcast,              \* the broadcastNewLiquidations call suspended before publish
    broadcasts,         \* calls of broadcastNewLiquidations so far
    isRefreshing,       \* LiquidationsService.isRefreshing
    passes,             \* refreshAllData invocations suspended at an await: tick -> state
    ticks,              \* timer ticks so far
    upstreamRequests,   \* fetches issued upstream so far by the refresh loop and by
                        \* the history endpoint
    lastPass,           \* how the last finished or skipped tick ended
    now,                \* the clock, in seconds
    expiresAt,          \* key -> None | Some(time at which the TTL of the key ends)
    reads,              \* calls of a read endpoint suspended at an await: id -> state
    refreshTimer,       \* LiquidationsService.refreshTimer: is the setInterval armed
    initialRefreshTimeout, \* is the setTimeout of startPolling still pending
    heartbeatTimer,     \* SSEManagerService.heartbeatTimer: is the setInterval armed
    shutdownPc,         \* position of the SIGINT / SIGTERM handler
    circuit,            \* state of the circuit breaker of the upstream API
    calc,               \* the event list under aggregation and what was computed from it
    subscription        \* SSEManagerService.isSubscribed, the calls of initialize that
                        \* await redisService.subscribe, and what they have started

deliveryVars == <<writeStalls, heartbeats, detaches>>

vars == <<upstreamTid, redis, channel, handled, clients, ipConnectionCount, responses,
          writeFails, deliveryVars, replays, nextReq, bcast, broadcasts,
          isRefreshing, passes, ticks, upstreamRequests, lastPass,
          now, expiresAt, reads,
          refreshTimer, initialRefreshTimeout, heartbeatTimer, shutdownPc, circuit, calc,
          subscription>>

registryVars == <<clients, ipConnectionCount, responses, writeFails, deliveryVars,
                  replays, nextReq>>
busVars == <<channel, handled, bcast, broadcasts>>
clockVars == <<now, expiresAt>>
processVars == <<refreshTimer, heartbeatTimer, shutdownPc, circuit>>
hostVars == <<processVars, initialRefreshTimeout, calc, subscription>>
refreshVars == <<isRefreshing, passes, ticks, upstreamRequests, lastPass, clockVars, reads,
                 hostVars>>

(***************************************************************************)
(* Init: the state after construction of the singletons and server         *)
(* startup (ClientInitializerService.initialize has called startPolling,   *)
(* SSEManagerService.initialize has called startHeartbeat).                *)
(***************************************************************************)
InitSingletons ==
    /\ upstreamTid = 0
    /\ redis = [k \in RedisKeys |-> None]
    /\ channel = <<>>
    /\ handled = {}
    /\ clients = <<>>
    /\ ipConnectionCount = <<>>
    /\ responses = <<>>
    /\ writeFails = {}
    /\ writeStalls = {}
    /\ heartbeats = 0
    /\ detaches = <<>>
    /\ replays = <<>>
    /\ nextReq = 1
    /\ bcast = None
    /\ broadcasts = 0
    /\ isRefreshing = FALSE
    /\ passes = <<>>
    /\ ticks = 0
    /\ upstreamRequests = 0
    /\ lastPass = [tick |-> 0, outcome |-> "none", at |-> "none", wrote |-> {}]
    /\ now = 0
    /\ expiresAt = [k \in RedisKeys |-> None]
    /\ reads = <<>>
    /\ refreshTimer = TRUE
    /\ initialRefreshTimeout = TRUE
    /\ shutdownPc = "running"
    /\ circuit = "closed"

\* SSEManagerService.initialize has run once: one subscribe call, resolved,
\* and one heartbeat interval
InitProgram ==
    /\ InitSingletons
    /\ heartbeatTimer = TRUE
    /\ subscription = [isSubscribed |-> TRUE, pending |-> 0, calls |-> 1,
                       subscribeCalls |-> 1, handlers |-> 1, intervals |-> 1]

\* no event list is under aggregation
NoCalc == [liquidations |-> <<>>, done |-> FALSE, now |-> 0, bucketNow |-> 0,
           periods |-> <<>>]

Init ==
    /\ InitProgram
    /\ calc = NoCalc

(***************************************************************************)
(* SSEManagerService: the subscriber registry.                             *)
(* The synchronous helpers work on a registry value                        *)
(*   R = [clients, ipConnectionCount, responses]                           *)
(* so that a handler that calls them many times is one action.             *)
(***************************************************************************)
Registry == [clients |-> clients, ipConnectionCount |-> ipConnectionCount,
             responses |-> responses]

\* a value is truthy in JavaScript: a number other than 0 (NaN aside), a
\* non-empty string
TruthyNumber(o) == IsSome(o) /\ Val(o) # 0
TruthyString(o) == IsSome(o) /\ Val(o) # <<>>

\* filterLiquidations: the predicate of the Array.filter callback
PassesFilters(t, filters) ==
    /\ ~(/\ TruthyString(filters.coin)
         /\ toUpperCase(Liquidation(t).coin) # toUpperCase(Val(filters.coin)))
    /\ ~(/\ TruthyNumber(filters.minAmountDollars)
         /\ Liquidation(t).notional_total < Val(filters.minAmountDollars))

filterLiquidations(liquidations, filters) ==
    SelectSeq(liquidations, LAMBDA t : PassesFilters(t, filters))

\* a variant of removeClient without the early return for an id that is not
\* in the map: the counter of the request's IP is decremented again
removeClientNoGuard(R, clientId) ==
    IF clientId \notin DOMAIN R.responses \/ R.responses[clientId].status # 200 THEN R
    ELSE LET ip == R.responses[clientId].ip
             currentIpCount == IF ip \in DOMAIN R.ipConnectionCount
                               THEN R.ipConnectionCount[ip] ELSE 0
         IN [R EXCEPT
               !.ipConnectionCount =
                   IF currentIpCount <= 1 THEN Without(R.ipConnectionCount, ip)
                   ELSE [R.ipConnectionCount EXCEPT ![ip] = currentIpCount - 1],
               !.clients = Without(R.clients, clientId)]

\* removeClient
removeClient(R, clientId) ==
    IF clientId \notin DOMAIN R.clients THEN R
    ELSE LET ip == R.clients[clientId].ip
             currentIpCount == IF ip \in DOMAIN R.ipConnectionCount
                               THEN R.ipConnectionCount[ip] ELSE 0
         IN [R EXCEPT
               !.ipConnectionCount =
                   IF currentIpCount <= 1 THEN Without(R.ipConnectionCount, ip)
                   ELSE [R.ipConnectionCount EXCEPT ![ip] = currentIpCount - 1],
               !.clients = Without(R.clients, clientId)]

\* sendEvent: write one frame to the client's response; a throwing write
\* removes the client
sendEvent(R, clientId, frame) ==
    IF clientId \in writeFails THEN removeClient(R, clientId)
    ELSE [R EXCEPT !.responses[clientId].frames = Append(@, frame)]

\* a frame written to a response: its event type and its id line; `via` tells
\* which loop wrote it ("attach", "replay" or "live")
ConnectedFrame == [type |-> "connected", id |-> 0, via |-> "attach"]
LiquidationFrame(t, via) == [type |-> "liquidation", id |-> t, via |-> via]

\* the loop "for (const liquidation of filtered) { sendEvent; client.lastEventId = tid }"
\* of handleBroadcastMessage and of sendMissedLiquidations
RECURSIVE sendLiquidations(_, _, _, _)
sendLiquidations(R, clientId, liquidations, via) ==
    IF liquidations = <<>> THEN R
    ELSE LET t == Head(liquidations)
             R1 == sendEvent(R, clientId, LiquidationFrame(t, via))
             R2 == IF clientId \in DOMAIN R1.clients
                   THEN [R1 EXCEPT !.clients[clientId].lastEventId = Some(t)]
                   ELSE R1
         IN sendLiquidations(R2, clientId, Tail(liquidations), via)

\* handleBroadcastMessage, for one client of the iteration
deliverToClient(R, clientId, newLiquidations) ==
    IF clientId \notin DOMAIN R.clients THEN R
    ELSE sendLiquidations(R, clientId,
                          filterLiquidations(newLiquidations, R.clients[clientId].filters),
                          "live")

\* a variant of handleBroadcastMessage in which a failed write is not caught
\* by sendEvent: the error ends the loop over the clients
RECURSIVE handleBroadcastMessageAbortOnError(_, _, _)
handleBroadcastMessageAbortOnError(R, ids, newLiquidations) ==
    IF ids = <<>> THEN R
    ELSE LET R1 == deliverToClient(R, Head(ids), newLiquidations)
         IN IF DOMAIN R1.clients # DOMAIN R.clients THEN R1
            ELSE handleBroadcastMessageAbortOnError(R1, Tail(ids), newLiquidations)

\* handleBroadcastMessage: "for (const client of this.clients.values())", a
\* Map iterates in insertion order, which is the order of the request numbers
RECURSIVE handleBroadcastMessage(_, _, _)
handleBroadcastMessage(R, ids, newLiquidations) ==
    IF ids = <<>> THEN R
    ELSE handleBroadcastMessage(deliverToClient(R, Head(ids), newLiquidations),
                                Tail(ids), newLiquidations)

\* sendMissedLiquidations after getRecentLiquidations has answered with `page`
sendMissed(R, clientId, filters, lastEventId, page) ==
    LET missedLiquidations == SortByTid(SelectSeq(page, LAMBDA t : t > lastEventId))
        filteredMissed == filterLiquidations(missedLiquidations, filters)
    IN sendLiquidations(R, clientId, filteredMissed, "replay")

(***************************************************************************)
(* GET /liquidations/stream and SSEManagerService.addClient, up to the     *)
(* first await. The request carries ip and the query (coin,                *)
(* min_amount_dollars, user, last_event_id or the Last-Event-ID header).   *)
(***************************************************************************)
\* a variant of the limit checks that compares with > instead of >=
AdmittedOffByOne(ip) ==
    /\ ~(Cardinality(DOMAIN clients) > MAX_TOTAL_CONNECTIONS)
    /\ ~((IF ip \in DOMAIN ipConnectionCount THEN ipConnectionCount[ip] ELSE 0)
            > MAX_CONNECTIONS_PER_IP)

Admitted(ip) ==
    /\ ~(Cardinality(DOMAIN clients) >= MAX_TOTAL_CONNECTIONS)
    /\ ~((IF ip \in DOMAIN ipConnectionCount THEN ipConnectionCount[ip] ELSE 0)
            >= MAX_CONNECTIONS_PER_IP)

\* the filter part of the query, as the client asked for it
FilterQuery(query) ==
    [coin |-> query.coin, min_amount_dollars |-> query.min_amount_dollars,
     user |-> query.user]

\* a variant of the denial in which the route has set the stream headers
\* before addClient answers, so that the status can no longer be 429
DeniedResponseAfterHeaders(ip, query) ==
    [ip |-> ip, status |-> 200, code |-> "", sseHeaders |-> TRUE,
     frames |-> <<>>, filterQuery |-> FilterQuery(query),
     replay |-> [state |-> "none", from |-> 0, missed |-> {}]]

\* addClient returned null: SSEConnectionLimitError, answered with its
\* statusCode and code, before any header of the stream is set
DeniedResponse(ip, query) ==
    [ip |-> ip, status |-> 429, code |-> "SSE_CONNECTION_LIMIT", sseHeaders |-> FALSE,
     frames |-> <<>>, filterQuery |-> FilterQuery(query),
     replay |-> [state |-> "none", from |-> 0, missed |-> {}]]

\* a variant of addClient that awaits the replay of a resuming session before
\* it sends the connected frame
StreamRequestReplayBeforeConnected(ip, query) ==
    LET clientId == nextReq
        \* the route builds filters from coin and min_amount_dollars only
        filters == [coin |-> query.coin, minAmountDollars |-> query.min_amount_dollars]
        lastEventId == query.last_event_id
        resume == TruthyNumber(lastEventId)
        currentIpCount == IF ip \in DOMAIN ipConnectionCount
                          THEN ipConnectionCount[ip] ELSE 0
        client == [ip |-> ip, filters |-> filters,
                   lastEventId |-> IF resume THEN lastEventId ELSE None]
        R0 == [clients |-> clients @@ (clientId :> client),
               ipConnectionCount |-> (ip :> (currentIpCount + 1)) @@ ipConnectionCount,
               responses |-> responses @@
                   (clientId :> [ip |-> ip, status |-> 200, code |-> "", sseHeaders |-> TRUE,
                                 frames |-> <<>>, filterQuery |-> FilterQuery(query),
                                 replay |-> [state |-> IF resume THEN "pending" ELSE "none",
                                             from |-> IF resume THEN Val(lastEventId) ELSE 0,
                                             \* the events broadcast before this attach
                                             \* that the client has not seen
                                             missed |-> IF resume
                                                        THEN {t \in handled : t > Val(lastEventId)}
                                                        ELSE {}]])]
        R1 == IF resume THEN R0 ELSE sendEvent(R0, clientId, ConnectedFrame)
    IN /\ nextReq' = nextReq + 1
       /\ IF Admitted(ip)
          THEN /\ clients' = R1.clients
               /\ ipConnectionCount' = R1.ipConnectionCount
               /\ responses' = R1.responses
               /\ replays' = IF resume
                             THEN replays @@ (clientId :>
                                     [lastEventId |-> Val(lastEventId), filters |-> filters,
                                      pc |-> "get", page |-> <<>>])
                             ELSE replays
          ELSE /\ responses' = responses @@ (clientId :> DeniedResponse(ip, query))
               /\ UNCHANGED <<clients, ipConnectionCount, replays, hostVars>>
       /\ UNCHANGED <<upstreamTid, redis, writeFails, deliveryVars, busVars, refreshVars>>

StreamRequest(ip, query) ==
    LET clientId == nextReq
        \* the route builds filters from coin and min_amount_dollars only
        filters == [coin |-> query.coin, minAmountDollars |-> query.min_amount_dollars]
        lastEventId == query.last_event_id
        resume == TruthyNumber(lastEventId)
        currentIpCount == IF ip \in DOMAIN ipConnectionCount
                          THEN ipConnectionCount[ip] ELSE 0
        client == [ip |-> ip, filters |-> filters,
                   lastEventId |-> IF resume THEN lastEventId ELSE None]
        R0 == [clients |-> clients @@ (clientId :> client),
               ipConnectionCount |-> (ip :> (currentIpCount + 1)) @@ ipConnectionCount,
               responses |-> responses @@
                   (clientId :> [ip |-> ip, status |-> 200, code |-> "", sseHeaders |-> TRUE,
                                 frames |-> <<>>, filterQuery |-> FilterQuery(query),
                                 replay |-> [state |-> IF resume THEN "pending" ELSE "none",
                                             from |-> IF resume THEN Val(lastEventId) ELSE 0,
                                             \* the events broadcast before this attach
                                             \* that the client has not seen
                                             missed |-> IF resume
                                                        THEN {t \in handled : t > Val(lastEventId)}
                                                        ELSE {}]])]
        R1 == sendEvent(R0, clientId, ConnectedFrame)
    IN /\ nextReq' = nextReq + 1
       /\ IF Admitted(ip)
          THEN /\ clients' = R1.clients
               /\ ipConnectionCount' = R1.ipConnectionCount
               /\ responses' = R1.responses
               /\ replays' = IF resume
                             THEN replays @@ (clientId :>
                                     [lastEventId |-> Val(lastEventId), filters |-> filters,
                                      pc |-> "get", page |-> <<>>])
                             ELSE replays
          ELSE /\ responses' = responses @@ (clientId :> DeniedResponse(ip, query))
               /\ UNCHANGED <<clients, ipConnectionCount, replays, hostVars>>
       /\ UNCHANGED <<upstreamTid, redis, writeFails, deliveryVars, busVars, refreshVars>>

\* req.on('close') / req.on('error'): registered once addClient has returned
ClientClose(clientId) ==
    /\ clientId \in DOMAIN clients
    /\ clientId \notin DOMAIN replays
    /\ LET R == removeClient(Registry, clientId)
       IN /\ clients' = R.clients
          /\ ipConnectionCount' = R.ipConnectionCount
          /\ responses' = R.responses
    /\ UNCHANGED <<upstreamTid, redis, writeFails, deliveryVars, replays, nextReq, busVars, refreshVars>>

\* the socket of an admitted response is destroyed: later writes throw
SocketBreak(clientId) ==
    /\ clientId \in DOMAIN clients
    /\ clientId \notin writeFails
    /\ writeFails' = writeFails \cup {clientId}
    /\ UNCHANGED <<upstreamTid, redis, clients, ipConnectionCount, responses, replays,
                   deliveryVars,
                   nextReq, busVars, refreshVars>>

\* the client stops reading: res.write queues the frame and returns false
SocketStall(clientId) ==
    /\ clientId \in DOMAIN clients
    /\ clientId \notin writeStalls
    /\ clientId \notin writeFails
    /\ writeStalls' = writeStalls \cup {clientId}
    /\ UNCHANGED <<upstreamTid, redis, clients, ipConnectionCount, responses, writeFails,
                   heartbeats, detaches, replays, nextReq, busVars, refreshVars>>

\* req.on('close') / req.on('error') of an admitted request: each handler
\* calls removeClient(clientId), whether or not the client is still in the
\* map
RequestClose(clientId) ==
    /\ clientId \in DOMAIN responses
    /\ responses[clientId].status = 200
    /\ clientId \notin DOMAIN replays
    /\ LET n == IF clientId \in DOMAIN detaches THEN detaches[clientId] ELSE 0
       IN /\ n < MaxDetaches
          /\ detaches' = (clientId :> (n + 1)) @@ detaches
    /\ LET R == removeClient(Registry, clientId)
       IN /\ clients' = R.clients
          /\ ipConnectionCount' = R.ipConnectionCount
          /\ responses' = R.responses
    /\ UNCHANGED <<upstreamTid, redis, writeFails, writeStalls, heartbeats, replays,
                   nextReq, busVars, refreshVars>>

\* the heartbeat timer callback of startHeartbeat
HeartbeatFrame == [type |-> "heartbeat", id |-> 0, via |-> "heartbeat"]

RECURSIVE sendHeartbeats(_, _)
sendHeartbeats(R, ids) ==
    IF ids = <<>> THEN R
    ELSE sendHeartbeats(IF Head(ids) \in DOMAIN R.clients
                        THEN sendEvent(R, Head(ids), HeartbeatFrame)
                        ELSE R,
                        Tail(ids))

Heartbeat ==
    /\ heartbeatTimer
    /\ heartbeats < MaxHeartbeats
    /\ heartbeats' = heartbeats + 1
    /\ LET R == sendHeartbeats(Registry, Asc(DOMAIN clients))
       IN /\ clients' = R.clients
          /\ ipConnectionCount' = R.ipConnectionCount
          /\ responses' = R.responses
    /\ UNCHANGED <<upstreamTid, redis, writeFails, writeStalls, detaches, replays,
                   nextReq, busVars, refreshVars>>

(***************************************************************************)
(* The upstream indexer.                                                   *)
(***************************************************************************)
UpstreamNewEvent ==
    /\ upstreamTid < MaxTid
    /\ upstreamTid' = upstreamTid + 1
    /\ UNCHANGED <<redis, registryVars, busVars, refreshVars>>

\* GET /liquidations/recent?hours=..&limit=..: the newest `limit` events,
\* newest first (every event of the model is younger than one hour)
UpstreamRecent(limit) == Desc({t \in 1..upstreamTid : t > upstreamTid - limit})

(***************************************************************************)
(* Resume replay: sendMissedLiquidations, which awaits                     *)
(* LiquidationsService.getRecentLiquidations({hours: 1, limit: 100}).      *)
(*   pc = "get"    redisService.get(cacheKey) is pending                   *)
(*   pc = "fetch"  client.getRecentLiquidations is pending (cache miss)    *)
(*   pc = "set"    redisService.set(cacheKey, response) is pending         *)
(***************************************************************************)
getRecentCacheKey(hours, limit) ==
    IF hours = 1 /\ limit = MISSED_DATA_LIMIT THEN RECENT_1H_KEY ELSE "liquidations:recent:other"

\* the replay of clientId ends: the frames are written and addClient returns
ReplayDone(clientId, page) ==
    LET r == replays[clientId]
        R == sendMissed(Registry, clientId, r.filters, r.lastEventId, page)
    IN /\ clients' = R.clients
       /\ ipConnectionCount' = R.ipConnectionCount
       /\ responses' = [R.responses EXCEPT ![clientId].replay.state = "done"]
       /\ replays' = Without(replays, clientId)

\* getRecentLiquidations: the cache answers. A hit is returned as it is.
ReplayCacheGet(clientId) ==
    /\ clientId \in DOMAIN replays
    /\ replays[clientId].pc = "get"
    /\ LET cached == redis[getRecentCacheKey(1, MISSED_DATA_LIMIT)]
       IN IF IsSome(cached)
          THEN ReplayDone(clientId, Val(cached))
          ELSE /\ replays' = [replays EXCEPT ![clientId].pc = "fetch"]
               /\ UNCHANGED <<clients, ipConnectionCount, responses, hostVars>>
    /\ UNCHANGED <<upstreamTid, redis, writeFails, deliveryVars, nextReq, busVars, refreshVars>>

\* getRecentLiquidations: the upstream answers the miss
ReplayFetchReturn(clientId) ==
    /\ clientId \in DOMAIN replays
    /\ replays[clientId].pc = "fetch"
    /\ replays' = [replays EXCEPT ![clientId].pc = "set",
                                  ![clientId].page = UpstreamRecent(MISSED_DATA_LIMIT)]
    /\ UNCHANGED <<upstreamTid, redis, clients, ipConnectionCount, responses, writeFails, deliveryVars,
                   nextReq, busVars, refreshVars>>

\* getRecentLiquidations: the upstream call throws; sendMissedLiquidations
\* catches and logs, nothing is replayed
ReplayFetchThrow(clientId) ==
    /\ clientId \in DOMAIN replays
    /\ replays[clientId].pc = "fetch"
    /\ replays' = Without(replays, clientId)
    /\ responses' = [responses EXCEPT ![clientId].replay.state = "failed"]
    /\ UNCHANGED <<upstreamTid, redis, clients, ipConnectionCount, writeFails, deliveryVars,
                   nextReq, busVars, refreshVars>>

\* getRecentLiquidations: the response is cached and returned
ReplayCacheSet(clientId) ==
    /\ clientId \in DOMAIN replays
    /\ replays[clientId].pc = "set"
    /\ redis' = [redis EXCEPT ![getRecentCacheKey(1, MISSED_DATA_LIMIT)] =
                                  Some(replays[clientId].page)]
    /\ ReplayDone(clientId, replays[clientId].page)
    /\ UNCHANGED <<upstreamTid, writeFails, deliveryVars, nextReq, busVars, refreshVars>>

\* RECENT_CACHE_TTL (180 s) runs out
RecentExpire ==
    /\ IsSome(redis[RECENT_1H_KEY])
    /\ redis' = [redis EXCEPT ![RECENT_1H_KEY] = None]
    /\ UNCHANGED <<upstreamTid, registryVars, busVars, refreshVars>>

(***************************************************************************)
(* The broadcast bus.                                                      *)
(***************************************************************************)
\* the marker as getLastSeenTid reads it: tid ? parseInt(tid, 10) : null
getLastSeenTid == IF IsSome(redis[LAST_TID_KEY]) THEN Some(parseInt(Val(redis[LAST_TID_KEY])))
                  ELSE None

\* broadcastNewLiquidations up to the await of redisService.set: the marker
\* is written first
broadcastNewLiquidations(liquidations) ==
    /\ liquidations # <<>>
    /\ bcast = None
    /\ LET maxTid == Max(Range(liquidations))
       IN redis' = [redis EXCEPT ![LAST_TID_KEY] = Some(toString(maxTid))]
    /\ bcast' = Some(liquidations)
    /\ broadcasts' = broadcasts + 1
    /\ UNCHANGED <<upstreamTid, channel, handled, registryVars, refreshVars>>

\* broadcastNewLiquidations after the set: redisService.publish
BroadcastPublish ==
    /\ IsSome(bcast)
    /\ channel' = Append(channel, Val(bcast))
    /\ bcast' = None
    /\ UNCHANGED <<upstreamTid, redis, handled, broadcasts, registryVars, refreshVars>>

\* redisService.publish rejects: broadcastNewLiquidations throws to its
\* caller, after the marker was written
BroadcastPublishThrow ==
    /\ IsSome(bcast)
    /\ bcast' = None
    /\ UNCHANGED <<upstreamTid, redis, channel, handled, broadcasts, registryVars,
                   refreshVars>>

\* setLastSeenTid
setLastSeenTid(tid) ==
    /\ redis' = [redis EXCEPT ![LAST_TID_KEY] = Some(toString(tid))]
    /\ UNCHANGED <<upstreamTid, registryVars, busVars, refreshVars>>

\* the subscription callback: handleBroadcastMessage on the next message
HandleBroadcast ==
    /\ channel # <<>>
    /\ LET R == handleBroadcastMessage(Registry, Asc(DOMAIN clients), Head(channel))
       IN /\ clients' = R.clients
          /\ ipConnectionCount' = R.ipConnectionCount
          /\ responses' = R.responses
    /\ channel' = Tail(channel)
    /\ handled' = handled \cup Range(Head(channel))
    /\ UNCHANGED <<upstreamTid, redis, writeFails, deliveryVars, replays, nextReq, bcast, broadcasts,
                   refreshVars>>

(***************************************************************************)
(* Spec: the stream.                                                       *)
(***************************************************************************)
\* the queries of the model: no filter, a coin in lower case, a minimum
\* amount, a liquidated wallet in lower case
Queries ==
    { [coin |-> c, min_amount_dollars |-> m, user |-> u, last_event_id |-> l] :
        c \in {None, Some(btc)}, m \in {None, Some(10)}, u \in {None, Some(usera)},
        l \in {None} \cup {Some(n) : n \in 0..(MaxTid - 1)} }
StreamQueries ==
    { q \in Queries : Cardinality({f \in {"coin", "min_amount_dollars", "user"} :
                                      IsSome(q[f])}) <= 1 }
\* the batches handed to broadcastNewLiquidations: events the upstream
\* holds, ascending by tid
Batches == { Asc(S) : S \in SUBSET (1..upstreamTid) \ {{}} }

Next ==
    \/ UpstreamNewEvent
    \/ /\ nextReq <= MaxStreamRequests
       /\ \E q \in StreamQueries : StreamRequest("X", q)
    \/ \E c \in DOMAIN clients : ClientClose(c)
    \/ \E c \in DOMAIN replays : ReplayCacheGet(c)
    \/ \E c \in DOMAIN replays : ReplayFetchReturn(c)
    \/ \E c \in DOMAIN replays : ReplayFetchThrow(c)
    \/ \E c \in DOMAIN replays : ReplayCacheSet(c)
    \/ RecentExpire
    \/ /\ broadcasts < MaxBroadcasts
       /\ \E b \in Batches : broadcastNewLiquidations(b)
    \/ BroadcastPublish
    \/ HandleBroadcast

Spec == Init /\ [][Next]_vars

(***************************************************************************)
(* SpecReplay: resume requests after a burst of liquidations, so that the  *)
(* events of the last hour are about as many as MISSED_DATA_LIMIT.         *)
(***************************************************************************)
\* a liquidation cascade: the upstream publishes many events within the hour
UpstreamBurst ==
    /\ upstreamTid = 0
    /\ upstreamTid' \in (MISSED_DATA_LIMIT - 1)..MaxBacklog
    /\ UNCHANGED <<redis, registryVars, busVars, refreshVars>>

ResumeQueries ==
    { [coin |-> None, min_amount_dollars |-> None, user |-> None, last_event_id |-> Some(n)] :
        n \in {1, MISSED_DATA_LIMIT} }

NextReplay ==
    \/ UpstreamBurst
    \/ /\ nextReq <= MaxStreamRequests
       /\ \E q \in ResumeQueries : StreamRequest("X", q)
    \/ \E c \in DOMAIN clients : ClientClose(c)
    \/ \E c \in DOMAIN replays : ReplayCacheGet(c)
    \/ \E c \in DOMAIN replays : ReplayFetchReturn(c)
    \/ \E c \in DOMAIN replays : ReplayFetchThrow(c)
    \/ \E c \in DOMAIN replays : ReplayCacheSet(c)

SpecReplay == Init /\ [][NextReplay]_vars

(***************************************************************************)
(* SpecAttach: attach with and without resume, next to broadcasts and      *)
(* heartbeat ticks.                                                        *)
(***************************************************************************)
PlainQuery == [coin |-> None, min_amount_dollars |-> None, user |-> None,
               last_event_id |-> None]

AttachQueries == {PlainQuery, [PlainQuery EXCEPT !.last_event_id = Some(1)]}

NextAttach ==
    \/ UpstreamNewEvent
    \/ /\ nextReq <= MaxStreamRequests
       /\ \E q \in AttachQueries : StreamRequest("X", q)
    \/ \E c \in DOMAIN replays : ReplayCacheGet(c)
    \/ \E c \in DOMAIN replays : ReplayFetchReturn(c)
    \/ \E c \in DOMAIN replays : ReplayFetchThrow(c)
    \/ \E c \in DOMAIN replays : ReplayCacheSet(c)
    \/ /\ broadcasts < MaxBroadcasts
       /\ \E b \in Batches : broadcastNewLiquidations(b)
    \/ BroadcastPublish
    \/ HandleBroadcast
    \/ Heartbeat

SpecAttach == Init /\ [][NextAttach]_vars

(***************************************************************************)
(* SpecAdmission: the registry under attach requests from two IPs, client  *)
(* disconnects and broken sockets.                                         *)
(***************************************************************************)
NextAdmission ==
    \/ /\ nextReq <= MaxAdmissionRequests
       /\ \E ip \in Ips : StreamRequest(ip, PlainQuery)
    \/ \E c \in DOMAIN clients : ClientClose(c)
    \/ \E c \in DOMAIN clients : SocketBreak(c)

SpecAdmission == Init /\ [][NextAdmission]_vars

(***************************************************************************)
(* SpecDelivery: sessions of two IPs, with or without a coin filter, under *)
(* broadcasts, heartbeats, broken and stalled sockets.                     *)
(***************************************************************************)
DeliveryQueries == {PlainQuery, [PlainQuery EXCEPT !.coin = Some(btc)]}

NextDelivery ==
    \/ UpstreamNewEvent
    \/ /\ nextReq <= MaxDeliveryRequests
       /\ \E ip \in Ips, q \in DeliveryQueries : StreamRequest(ip, q)
    \/ \E c \in DOMAIN clients : SocketBreak(c)
    \/ \E c \in DOMAIN clients : SocketStall(c)
    \/ /\ broadcasts < MaxBroadcasts
       /\ \E b \in Batches : broadcastNewLiquidations(b)
    \/ BroadcastPublish
    \/ HandleBroadcast
    \/ Heartbeat

SpecDelivery == Init /\ [][NextDelivery]_vars

\* SpecDetach: the three callers of removeClient (close handler, error
\* handler, failed write of a heartbeat)
NextDetach ==
    \/ /\ nextReq <= MaxDeliveryRequests
       /\ \E ip \in Ips, q \in DeliveryQueries : StreamRequest(ip, q)
    \/ \E c \in DOMAIN clients : SocketBreak(c)
    \/ \E c \in DOMAIN responses : RequestClose(c)
    \/ Heartbeat

SpecDetach == Init /\ [][NextDetach]_vars

(***************************************************************************)
(* SpecRegistry: the callers of removeClient next to                       *)
(* SSEManagerService.shutdown and getStats.                                *)
(***************************************************************************)
\* res.end(): the end of the stream, as the last thing written
EndFrame == [type |-> "end", id |-> 0, via |-> "shutdown"]

\* stopHeartbeat
stopHeartbeat ==
    /\ heartbeatTimer' = FALSE
    /\ subscription' = [subscription EXCEPT !.intervals = IF heartbeatTimer THEN @ - 1 ELSE @]

\* a variant of shutdown that leaves ipConnectionCount as it is
shutdownKeepingCounters ==
    /\ stopHeartbeat
    /\ responses' = [c \in DOMAIN responses |->
                        IF c \in DOMAIN clients /\ c \notin writeFails
                        THEN [responses[c] EXCEPT !.frames = Append(@, EndFrame)]
                        ELSE responses[c]]
    /\ clients' = <<>>
    /\ UNCHANGED ipConnectionCount
    /\ UNCHANGED <<upstreamTid, redis, writeFails, deliveryVars, replays, nextReq, busVars,
                   isRefreshing, passes, ticks, upstreamRequests, lastPass, clockVars, reads,
                   refreshTimer, shutdownPc, circuit, initialRefreshTimeout, calc>>

\* shutdown: stopHeartbeat, res.end() of every client (a throw is ignored),
\* clients.clear(), ipConnectionCount.clear()
shutdown ==
    /\ stopHeartbeat
    /\ responses' = [c \in DOMAIN responses |->
                        IF c \in DOMAIN clients /\ c \notin writeFails
                        THEN [responses[c] EXCEPT !.frames = Append(@, EndFrame)]
                        ELSE responses[c]]
    /\ clients' = <<>>
    /\ ipConnectionCount' = <<>>
    /\ UNCHANGED <<upstreamTid, redis, writeFails, deliveryVars, replays, nextReq, busVars,
                   isRefreshing, passes, ticks, upstreamRequests, lastPass, clockVars, reads,
                   refreshTimer, shutdownPc, circuit, initialRefreshTimeout, calc>>

getStats ==
    [totalConnections |-> Cardinality(DOMAIN clients),
     uniqueIps |-> Cardinality(DOMAIN ipConnectionCount)]

NextRegistry ==
    \/ /\ nextReq <= MaxDeliveryRequests
       /\ \E ip \in Ips, q \in DeliveryQueries : StreamRequest(ip, q)
    \/ \E c \in DOMAIN clients : SocketBreak(c)
    \/ \E c \in DOMAIN responses : RequestClose(c)
    \/ Heartbeat
    \/ shutdown

SpecRegistry == Init /\ [][NextRegistry]_vars

(***************************************************************************)
(* SpecInitialize: SSEManagerService.initialize from the constructed       *)
(* manager on.  A call runs up to the await of redisService.subscribe in   *)
(* one step and from its settlement to the end in another, so calls        *)
(* overlap while a subscribe is pending.                                   *)
(***************************************************************************)
InitInitialize ==
    /\ InitSingletons
    /\ heartbeatTimer = FALSE
    /\ subscription = [isSubscribed |-> FALSE, pending |-> 0, calls |-> 0,
                       subscribeCalls |-> 0, handlers |-> 0, intervals |-> 0]
    /\ calc = NoCalc

initializeUnchanged ==
    UNCHANGED <<upstreamTid, redis, registryVars, busVars, isRefreshing, passes, ticks, upstreamRequests, lastPass, clockVars,
                reads, refreshTimer, shutdownPc, circuit, initialRefreshTimeout, calc>>

\* initialize up to the await: the isSubscribed guard, then the subscribe call
initialize ==
    /\ subscription.calls < MaxInitializeCalls
    /\ subscription' =
          IF subscription.isSubscribed
          THEN [subscription EXCEPT !.calls = @ + 1]
          ELSE [subscription EXCEPT !.calls = @ + 1, !.subscribeCalls = @ + 1,
                                    !.pending = @ + 1]
    /\ UNCHANGED heartbeatTimer
    /\ initializeUnchanged

\* the subscribe resolves: the handler is registered, isSubscribed = true,
\* startHeartbeat (which returns early when a timer exists)
SubscribeResolve ==
    /\ subscription.pending > 0
    /\ subscription' = [subscription EXCEPT !.pending = @ - 1, !.handlers = @ + 1,
                                            !.isSubscribed = TRUE,
                                            !.intervals = IF heartbeatTimer THEN @ ELSE @ + 1]
    /\ heartbeatTimer' = TRUE
    /\ initializeUnchanged

\* the subscribe rejects: initialize throws at the await
SubscribeReject ==
    /\ subscription.pending > 0
    /\ subscription' = [subscription EXCEPT !.pending = @ - 1]
    /\ UNCHANGED heartbeatTimer
    /\ initializeUnchanged

NextInitialize ==
    \/ initialize
    \/ SubscribeResolve
    \/ SubscribeReject
    \/ /\ nextReq <= MaxDeliveryRequests
       /\ \E ip \in Ips : StreamRequest(ip, PlainQuery)
    \/ \E c \in DOMAIN clients : SocketBreak(c)
    \/ Heartbeat
    \/ shutdown

SpecInitialize == InitInitialize /\ [][NextInitialize]_vars

(***************************************************************************)
(* LiquidationsService: the background refresh loop.                       *)
(* A pass (one invocation of refreshAllData that passed the guard) is      *)
(* suspended at one of its awaits:                                         *)
(*   pc = "fetch"     client.getRecentLiquidations (a page of the 24h      *)
(*                    window) is pending                                   *)
(*   pc = "setData"   redisService.set('liquidations:all-data') is pending *)
(*   pc = "setStats"  redisService.set('liquidations:stats') is pending    *)
(***************************************************************************)
\* GET /liquidations/recent?hours=24&limit=..&order=DESC&cursor=..: keyset
\* pagination, newest first; the cursor is the tid of the last event served
UpstreamPage(cursor, limit) ==
    LET top == IF IsSome(cursor) THEN Val(cursor) - 1 ELSE upstreamTid
        data == Desc({t \in 1..top : t > top - limit})
    IN [data |-> data,
        next_cursor |-> IF data = <<>> THEN None ELSE Some(data[Len(data)]),
        has_more |-> data # <<>> /\ data[Len(data)] > 1]

\* the same endpoint when the upstream compares the cursor with <= instead
\* of < : the event the cursor names is served again at the head of the page
UpstreamPageFrom(cursor, limit, inclusive) ==
    LET top == IF IsSome(cursor)
               THEN (IF inclusive THEN Val(cursor) ELSE Val(cursor) - 1)
               ELSE upstreamTid
        data == Desc({t \in 1..top : t > top - limit})
    IN [data |-> data,
        next_cursor |-> IF data = <<>> THEN None ELSE Some(data[Len(data)]),
        has_more |-> data # <<>> /\ data[Len(data)] > 1]

\* the events of a list of tids
Events(tids) == [i \in DOMAIN tids |-> Liquidation(tids[i])]

\* a variant that rounds to whole dollars (Math.round(x))
Round2Whole(x) == ((x + 500) \div 1000) * 1000

\* Math.round(x * 100) / 100 on an amount in thousandths of a dollar
Round2(x) == ((x + 5) \div 10) * 10
\* Math.round((total / n) * 100) / 100
RoundedAverage(total, n) == ((total + 5 * n) \div (10 * n)) * 10

\* coinVolumes: Map<string, number>, a sequence of entries in insertion order
coinVolumesGet(coinVolumes, coin) ==
    LET hits == SelectSeq(coinVolumes, LAMBDA e : e.coin = coin)
    IN IF hits = <<>> THEN None ELSE Some(hits[1].volume)
coinVolumesSet(coinVolumes, coin, volume) ==
    IF IsSome(coinVolumesGet(coinVolumes, coin))
    THEN [i \in DOMAIN coinVolumes |->
             IF coinVolumes[i].coin = coin THEN [coin |-> coin, volume |-> volume]
             ELSE coinVolumes[i]]
    ELSE Append(coinVolumes, [coin |-> coin, volume |-> volume])

\* a variant of the first loop of calculateStats that counts as short only
\* the events whose direction is 'Short'
RECURSIVE statsLoopStrictShort(_, _)
statsLoopStrictShort(acc, liquidations) ==
    IF liquidations = <<>> THEN acc
    ELSE LET liq == Head(liquidations)
             n == liq.notional_total
             a1 == [acc EXCEPT !.totalVolume = @ + n,
                               !.maxLiq = IF n > @ THEN n ELSE @]
             a2 == IF liq.liq_dir = "Long"
                   THEN [a1 EXCEPT !.longCount = @ + 1, !.longVolume = @ + n]
                   ELSE IF liq.liq_dir = "Short"
                   THEN [a1 EXCEPT !.shortCount = @ + 1, !.shortVolume = @ + n]
                   ELSE a1
             currentVolume == coinVolumesGet(a2.coinVolumes, liq.coin)
             a3 == [a2 EXCEPT !.coinVolumes =
                       coinVolumesSet(@, liq.coin,
                           (IF IsSome(currentVolume) /\ Val(currentVolume) # 0
                            THEN Val(currentVolume) ELSE 0) + n)]
         IN statsLoopStrictShort(a3, Tail(liquidations))

\* calculateStats: the loop over the events
RECURSIVE statsLoop(_, _)
statsLoop(acc, liquidations) ==
    IF liquidations = <<>> THEN acc
    ELSE LET liq == Head(liquidations)
             n == liq.notional_total
             a1 == [acc EXCEPT !.totalVolume = @ + n,
                               !.maxLiq = IF n > @ THEN n ELSE @]
             a2 == IF liq.liq_dir = "Long"
                   THEN [a1 EXCEPT !.longCount = @ + 1, !.longVolume = @ + n]
                   ELSE [a1 EXCEPT !.shortCount = @ + 1, !.shortVolume = @ + n]
             currentVolume == coinVolumesGet(a2.coinVolumes, liq.coin)
             a3 == [a2 EXCEPT !.coinVolumes =
                       coinVolumesSet(@, liq.coin,
                           (IF IsSome(currentVolume) /\ Val(currentVolume) # 0
                            THEN Val(currentVolume) ELSE 0) + n)]
         IN statsLoop(a3, Tail(liquidations))

\* a variant of the second loop in which no entry leaves topCoin empty
RECURSIVE topCoinLoopEmptyDefault(_, _)
topCoinLoopEmptyDefault(top, coinVolumes) ==
    IF coinVolumes = <<>>
    THEN IF top.topCoin = NA THEN [top EXCEPT !.topCoin = <<>>] ELSE top
    ELSE topCoinLoopEmptyDefault(
             IF Head(coinVolumes).volume > top.topCoinVolume
             THEN [topCoin |-> Head(coinVolumes).coin,
                   topCoinVolume |-> Head(coinVolumes).volume]
             ELSE top,
             Tail(coinVolumes))

\* calculateStats: the loop over coinVolumes, in insertion order
RECURSIVE topCoinLoop(_, _)
topCoinLoop(top, coinVolumes) ==
    IF coinVolumes = <<>> THEN top
    ELSE topCoinLoop(
             IF Head(coinVolumes).volume > top.topCoinVolume
             THEN [topCoin |-> Head(coinVolumes).coin,
                   topCoinVolume |-> Head(coinVolumes).volume]
             ELSE top,
             Tail(coinVolumes))

calculateStats(liquidations) ==
    LET acc == statsLoop([totalVolume |-> 0, longCount |-> 0, shortCount |-> 0,
                          longVolume |-> 0, shortVolume |-> 0, maxLiq |-> 0,
                          coinVolumes |-> <<>>], liquidations)
        top == topCoinLoop([topCoin |-> NA, topCoinVolume |-> 0], acc.coinVolumes)
        avgSize == IF Len(liquidations) > 0
                   THEN RoundedAverage(acc.totalVolume, Len(liquidations))
                   ELSE 0
    IN [totalVolume |-> Round2(acc.totalVolume),
        liquidationsCount |-> Len(liquidations),
        longCount |-> acc.longCount,
        shortCount |-> acc.shortCount,
        topCoin |-> top.topCoin,
        topCoinVolume |-> Round2(top.topCoinVolume),
        avgSize |-> avgSize,
        maxLiq |-> Round2(acc.maxLiq),
        longVolume |-> Round2(acc.longVolume),
        shortVolume |-> Round2(acc.shortVolume)]

PERIOD_CONFIG(period) ==
    CASE period = "2h" -> [hours |-> 2, interval |-> "5m", intervalMs |-> 5 * 60 * 1000]
      [] period = "4h" -> [hours |-> 4, interval |-> "5m", intervalMs |-> 5 * 60 * 1000]
      [] period = "8h" -> [hours |-> 8, interval |-> "15m", intervalMs |-> 15 * 60 * 1000]
      [] period = "12h" -> [hours |-> 12, interval |-> "15m", intervalMs |-> 15 * 60 * 1000]
      [] period = "24h" -> [hours |-> 24, interval |-> "30m", intervalMs |-> 30 * 60 * 1000]

\* Math.ceil(a / b), b positive
Ceil(a, b) == -((-a) \div b)

\* a variant of the bucket count with the loop bound i <= numBuckets
numBucketsInclusive(hours, intervalMs) == Ceil(hours * 60 * 60 * 1000, intervalMs) + 1

numBuckets(hours, intervalMs) == Ceil(hours * 60 * 60 * 1000, intervalMs)

\* a variant that takes the time of an event from its time_ms field
liqTimeFromMs(liq) == liq.time_ms

\* new Date(liq.time).getTime()
liqTime(liq) == getTime(liq.time)

emptyBucket(bucketStart) ==
    [timestamp |-> toISOString(bucketStart), timestampMs |-> bucketStart,
     totalVolume |-> 0, longVolume |-> 0, shortVolume |-> 0,
     liquidationsCount |-> 0, longCount |-> 0, shortCount |-> 0]

\* a variant of the loop that puts an event older than the first bucket into
\* the first bucket (Math.max(0, bucketIndex))
RECURSIVE bucketLoopClampedAtStart(_, _, _, _)
bucketLoopClampedAtStart(buckets, liquidations, startMs, intervalMs) ==
    IF liquidations = <<>> THEN buckets
    ELSE LET liq == Head(liquidations)
             n == liq.notional_total
             floorIndex == (liqTime(liq) - startMs) \div intervalMs
             bucketIndex == IF floorIndex < 0 THEN 0 ELSE floorIndex
             bucketStart == startMs + bucketIndex * intervalMs
             updated ==
                 IF bucketStart \in DOMAIN buckets
                 THEN [buckets EXCEPT ![bucketStart] =
                         IF liq.liq_dir = "Long"
                         THEN [@ EXCEPT !.totalVolume = @ + n, !.liquidationsCount = @ + 1,
                                        !.longVolume = @ + n, !.longCount = @ + 1]
                         ELSE [@ EXCEPT !.totalVolume = @ + n, !.liquidationsCount = @ + 1,
                                        !.shortVolume = @ + n, !.shortCount = @ + 1]]
                 ELSE buckets
         IN bucketLoopClampedAtStart(updated, Tail(liquidations), startMs, intervalMs)

\* aggregateIntoBuckets: the loop over the events; buckets is the Map keyed
\* by bucketStart
RECURSIVE bucketLoop(_, _, _, _)
bucketLoop(buckets, liquidations, startMs, intervalMs) ==
    IF liquidations = <<>> THEN buckets
    ELSE LET liq == Head(liquidations)
             n == liq.notional_total
             bucketIndex == (liqTime(liq) - startMs) \div intervalMs
             bucketStart == startMs + bucketIndex * intervalMs
             updated ==
                 IF bucketStart \in DOMAIN buckets
                 THEN [buckets EXCEPT ![bucketStart] =
                         IF liq.liq_dir = "Long"
                         THEN [@ EXCEPT !.totalVolume = @ + n, !.liquidationsCount = @ + 1,
                                        !.longVolume = @ + n, !.longCount = @ + 1]
                         ELSE [@ EXCEPT !.totalVolume = @ + n, !.liquidationsCount = @ + 1,
                                        !.shortVolume = @ + n, !.shortCount = @ + 1]]
                 ELSE buckets
         IN bucketLoop(updated, Tail(liquidations), startMs, intervalMs)

\* Array.prototype.sort((a, b) => a.timestampMs - b.timestampMs)
RECURSIVE InsertByTimestamp(_, _)
InsertByTimestamp(s, b) ==
    IF s = <<>> THEN <<b>>
    ELSE IF s[Len(s)].timestampMs <= b.timestampMs THEN Append(s, b)
    ELSE Append(InsertByTimestamp(SubSeq(s, 1, Len(s) - 1), b), s[Len(s)])
RECURSIVE SortByTimestamp(_)
SortByTimestamp(s) ==
    IF s = <<>> THEN <<>>
    ELSE InsertByTimestamp(SortByTimestamp(SubSeq(s, 1, Len(s) - 1)), s[Len(s)])

\* aggregateIntoBuckets; clock is the value its Date.now() returns
aggregateIntoBuckets(liquidations, intervalMs, hours, clock) ==
    LET startMs == clock - hours * 60 * 60 * 1000
        k == numBuckets(hours, intervalMs)
        initial == [bucketStart \in {startMs + i * intervalMs : i \in 0..(k - 1)} |->
                        emptyBucket(bucketStart)]
        buckets == bucketLoop(initial, liquidations, startMs, intervalMs)
        result == [i \in 1..k |->
                      [buckets[startMs + (i - 1) * intervalMs] EXCEPT
                           !.totalVolume = Round2(@),
                           !.longVolume = Round2(@),
                           !.shortVolume = Round2(@)]]
    IN SortByTimestamp(result)

\* buildAndCacheUnifiedData: periodsData; clock is the value of its
\* Date.now(), bucketClock the value aggregateIntoBuckets reads afterwards
periodsData(allLiquidations, clock, bucketClock) ==
    [period \in Periods |->
        LET config == PERIOD_CONFIG(period)
            cutoffTime == clock - config.hours * 60 * 60 * 1000
            periodLiquidations ==
                SelectSeq(allLiquidations, LAMBDA liq : liqTime(liq) >= cutoffTime)
        IN [stats |-> calculateStats(periodLiquidations),
            chart |-> [interval |-> config.interval,
                       buckets |-> aggregateIntoBuckets(periodLiquidations,
                                       config.intervalMs, config.hours, bucketClock)]]]

\* the blob buildAndCacheUnifiedData writes (every event of the model is
\* inside every period)
buildUnifiedData(allLiquidations) ==
    [success |-> TRUE, periods |-> calculateStats(Events(allLiquidations))]
\* the blob buildAndCacheStatsAll writes
buildStatsAll(allLiquidations) ==
    [success |-> TRUE, stats |-> calculateStats(Events(allLiquidations))]

\* a variant of the end of a failed pass without the finally block
EndPassWithoutFinally(tick, outcome) ==
    /\ isRefreshing' = isRefreshing
    /\ lastPass' = [tick |-> tick, outcome |-> outcome, at |-> passes[tick].pc,
                    wrote |-> passes[tick].wrote]
    /\ passes' = Without(passes, tick)

\* the finally block, and what the log says of the tick
EndPass(tick, outcome) ==
    /\ isRefreshing' = FALSE
    /\ lastPass' = [tick |-> tick, outcome |-> outcome, at |-> passes[tick].pc,
                    wrote |-> passes[tick].wrote]
    /\ passes' = Without(passes, tick)

\* refreshAllData, from the timer callback to the first await
refreshAllDataNoGuard(tick) ==
    /\ isRefreshing' = TRUE
    /\ passes' = passes @@ (tick :>
                    [pc |-> "fetch", cursor |-> None, hasMore |-> TRUE, pagesLoaded |-> 0,
                     allLiquidations |-> <<>>, wrote |-> {},
                     requested |-> <<None>>, pages |-> <<>>,
                     before |-> [redis |-> redis, channel |-> channel]])
    /\ upstreamRequests' = upstreamRequests + 1
    /\ UNCHANGED <<lastPass, upstreamTid, redis, registryVars, busVars, clockVars, reads,
                   processVars, calc, subscription>>

refreshAllData(tick) ==
    IF isRefreshing
    THEN \* 'Skipping refresh - already in progress'
         /\ lastPass' = [tick |-> tick, outcome |-> "skipped", at |-> "guard", wrote |-> {}]
         /\ UNCHANGED <<isRefreshing, passes, upstreamRequests,
                        upstreamTid, redis, registryVars, busVars, clockVars, reads,
                        processVars, calc, subscription>>
    ELSE /\ isRefreshing' = TRUE
         /\ passes' = passes @@ (tick :>
                    [pc |-> "fetch", cursor |-> None, hasMore |-> TRUE, pagesLoaded |-> 0,
                     allLiquidations |-> <<>>, wrote |-> {},
                     requested |-> <<None>>, pages |-> <<>>,
                     before |-> [redis |-> redis, channel |-> channel]])
         /\ upstreamRequests' = upstreamRequests + 1
         /\ UNCHANGED <<lastPass, upstreamTid, redis, registryVars, busVars, clockVars, reads,
                   processVars, calc, subscription>>

\* the setInterval / setTimeout callback of startPolling
Tick ==
    /\ refreshTimer
    /\ ticks < MaxTicks
    /\ ticks' = ticks + 1
    /\ refreshAllData(ticks + 1)
    /\ UNCHANGED initialRefreshTimeout

\* a variant of the page loop whose condition is hasMore alone
FetchReturnPageNoCap(tick, response) ==
    /\ tick \in DOMAIN passes
    /\ passes[tick].pc = "fetch"
    /\ LET p == passes[tick]
           all == p.allLiquidations \o response.data
           pagesLoaded == p.pagesLoaded + 1
           more == response.has_more
       IN /\ passes' = [passes EXCEPT ![tick] =
                 [p EXCEPT !.allLiquidations = all, !.cursor = response.next_cursor,
                           !.hasMore = response.has_more, !.pagesLoaded = pagesLoaded,
                           !.pages = Append(@, response),
                           !.requested = IF more THEN Append(@, response.next_cursor)
                                         ELSE @,
                           !.pc = IF more THEN "fetch" ELSE "setData"]]
          /\ upstreamRequests' = IF more THEN upstreamRequests + 1 ELSE upstreamRequests
    /\ UNCHANGED <<isRefreshing, ticks, lastPass, upstreamTid, redis, registryVars, busVars,
                   clockVars, reads, hostVars>>

\* a page arrives: the while loop goes on (after the 500 ms delay) with the
\* next fetch, or the pass goes on to buildAndCacheUnifiedData. requested
\* and pages keep what the loop passed to and got from the client.
FetchReturnPage(tick, response) ==
    /\ tick \in DOMAIN passes
    /\ passes[tick].pc = "fetch"
    /\ LET p == passes[tick]
           all == p.allLiquidations \o response.data
           pagesLoaded == p.pagesLoaded + 1
           more == response.has_more /\ pagesLoaded < MAX_PAGES_FOR_STATS
       IN /\ passes' = [passes EXCEPT ![tick] =
                 [p EXCEPT !.allLiquidations = all, !.cursor = response.next_cursor,
                           !.hasMore = response.has_more, !.pagesLoaded = pagesLoaded,
                           !.pages = Append(@, response),
                           !.requested = IF more THEN Append(@, response.next_cursor)
                                         ELSE @,
                           !.pc = IF more THEN "fetch" ELSE "setData"]]
          /\ upstreamRequests' = IF more THEN upstreamRequests + 1 ELSE upstreamRequests
    /\ UNCHANGED <<isRefreshing, ticks, lastPass, upstreamTid, redis, registryVars, busVars,
                   clockVars, reads, hostVars>>

\* a variant of the page loop that caches what it has after every page
FetchReturnWritingPartial(tick) ==
    /\ tick \in DOMAIN passes
    /\ passes[tick].pc = "fetch"
    /\ LET p == passes[tick]
           response == UpstreamPage(p.cursor, PageLimit)
           all == p.allLiquidations \o response.data
           pagesLoaded == p.pagesLoaded + 1
           more == response.has_more /\ pagesLoaded < MAX_PAGES_FOR_STATS
       IN /\ passes' = [passes EXCEPT ![tick] =
                 [p EXCEPT !.allLiquidations = all, !.cursor = response.next_cursor,
                           !.hasMore = response.has_more, !.pagesLoaded = pagesLoaded,
                           !.pages = Append(@, response),
                           !.requested = IF more THEN Append(@, response.next_cursor)
                                         ELSE @,
                           !.pc = IF more THEN "fetch" ELSE "setData",
                           !.wrote = @ \cup {ALL_DATA_KEY}]]
          /\ redis' = [redis EXCEPT ![ALL_DATA_KEY] = Some(buildUnifiedData(all))]
          /\ upstreamRequests' = IF more THEN upstreamRequests + 1 ELSE upstreamRequests
    /\ UNCHANGED <<isRefreshing, ticks, lastPass, upstreamTid, registryVars, busVars,
                   clockVars, reads, hostVars>>

FetchReturn(tick) ==
    /\ tick \in DOMAIN passes
    /\ FetchReturnPage(tick, UpstreamPage(passes[tick].cursor, PageLimit))

\* the fetch throws (circuit open, timeout, HTTP error): catch, finally
FetchThrow(tick) ==
    /\ tick \in DOMAIN passes
    /\ passes[tick].pc = "fetch"
    /\ EndPass(tick, "failed")
    /\ UNCHANGED <<ticks, upstreamRequests, upstreamTid, redis, registryVars, busVars,
                   clockVars, reads, hostVars>>

\* buildAndCacheUnifiedData: the set of 'liquidations:all-data' is done;
\* buildAndCacheStatsAll starts
SetDataDone(tick) ==
    /\ tick \in DOMAIN passes
    /\ passes[tick].pc = "setData"
    /\ redis' = [redis EXCEPT ![ALL_DATA_KEY] =
                                  Some(buildUnifiedData(passes[tick].allLiquidations))]
    /\ expiresAt' = [expiresAt EXCEPT ![ALL_DATA_KEY] = Some(now + DATA_CACHE_TTL)]
    /\ passes' = [passes EXCEPT ![tick].pc = "setStats",
                                ![tick].wrote = @ \cup {ALL_DATA_KEY}]
    /\ UNCHANGED <<isRefreshing, ticks, upstreamRequests, lastPass, upstreamTid,
                   registryVars, busVars, now, reads, hostVars>>

SetDataThrow(tick) ==
    /\ tick \in DOMAIN passes
    /\ passes[tick].pc = "setData"
    /\ EndPass(tick, "failed")
    /\ UNCHANGED <<ticks, upstreamRequests, upstreamTid, redis, registryVars, busVars,
                   clockVars, reads, hostVars>>

\* buildAndCacheStatsAll: the set of 'liquidations:stats' is done; the pass
\* completes
SetStatsDone(tick) ==
    /\ tick \in DOMAIN passes
    /\ passes[tick].pc = "setStats"
    /\ redis' = [redis EXCEPT ![STATS_WRITE_KEY] =
                                  Some(buildStatsAll(passes[tick].allLiquidations))]
    /\ isRefreshing' = FALSE
    /\ lastPass' = [tick |-> tick, outcome |-> "ok", at |-> "end",
                    wrote |-> passes[tick].wrote \cup {STATS_WRITE_KEY}]
    /\ expiresAt' = [expiresAt EXCEPT ![STATS_WRITE_KEY] = Some(now + STATS_CACHE_TTL)]
    /\ passes' = Without(passes, tick)
    /\ UNCHANGED <<ticks, upstreamRequests, upstreamTid, registryVars, busVars, now, reads, hostVars>>

SetStatsThrow(tick) ==
    /\ tick \in DOMAIN passes
    /\ passes[tick].pc = "setStats"
    /\ EndPass(tick, "failed")
    /\ UNCHANGED <<ticks, upstreamRequests, upstreamTid, redis, registryVars, busVars,
                   clockVars, reads, hostVars>>

NextRefresh ==
    \/ UpstreamNewEvent
    \/ Tick
    \/ \E t \in DOMAIN passes : FetchReturn(t)
    \/ \E t \in DOMAIN passes : FetchThrow(t)
    \/ \E t \in DOMAIN passes : SetDataDone(t)
    \/ \E t \in DOMAIN passes : SetDataThrow(t)
    \/ \E t \in DOMAIN passes : SetStatsDone(t)
    \/ \E t \in DOMAIN passes : SetStatsThrow(t)

SpecRefresh == Init /\ [][NextRefresh]_vars

\* every promise a pass awaits settles: the fetch returns or throws, each
\* cache write resolves or rejects
SpecRefreshFair ==
    /\ SpecRefresh
    /\ WF_vars(\E t \in DOMAIN passes : FetchReturn(t) \/ FetchThrow(t))
    /\ WF_vars(\E t \in DOMAIN passes : SetDataDone(t) \/ SetDataThrow(t))
    /\ WF_vars(\E t \in DOMAIN passes : SetStatsDone(t) \/ SetStatsThrow(t))

(***************************************************************************)
(* SpecPages: the page loop of a pass against an upstream whose pages may   *)
(* overlap.                                                                *)
(***************************************************************************)
NextPages ==
    \/ UpstreamNewEvent
    \/ Tick
    \/ \E t \in DOMAIN passes, inclusive \in BOOLEAN :
           FetchReturnPage(t, UpstreamPageFrom(passes[t].cursor, PageLimit, inclusive))
    \/ \E t \in DOMAIN passes : FetchThrow(t)
    \/ \E t \in DOMAIN passes : SetDataDone(t)
    \/ \E t \in DOMAIN passes : SetStatsDone(t)

SpecPages == Init /\ [][NextPages]_vars

\* every fetch that is pending returns
SpecPagesFair ==
    /\ SpecPages
    /\ WF_vars(\E t \in DOMAIN passes, inclusive \in BOOLEAN :
           FetchReturnPage(t, UpstreamPageFrom(passes[t].cursor, PageLimit, inclusive)))

(***************************************************************************)
(* The read endpoints getAllData, getAllStats and getChartData. Each call  *)
(* is suspended at one of its awaits:                                      *)
(*   pc = "get"    redisService.get(cacheKey) is pending                   *)
(*   pc = "fetch"  client.getRecentLiquidations (a page of the 24h window) *)
(*                 is pending                                              *)
(*   pc = "set"    redisService.set(cacheKey, result) is pending           *)
(*   pc = "done"   the call has returned result, or thrown                 *)
(* getChartData is called for the period 24h.                              *)
(***************************************************************************)
Endpoints == {"getAllData", "getAllStats", "getChartData"}

ReadKey(endpoint) ==
    CASE endpoint = "getAllData" -> ALL_DATA_KEY
      [] endpoint = "getAllStats" -> STATS_READ_KEY
      [] endpoint = "getChartData" -> getChartCacheKey("24h")

\* results[period] = null for every period
NullStats == [isNull |-> TRUE]

\* the result the endpoint builds from the pages it has fetched
BuildResult(endpoint, allLiquidations) ==
    CASE endpoint = "getAllData" -> buildUnifiedData(allLiquidations)
      [] endpoint = "getAllStats" -> buildStatsAll(allLiquidations)
      [] endpoint = "getChartData" ->
            [success |-> TRUE, metadata |-> calculateStats(Events(allLiquidations))]

ReadStart(endpoint) ==
    /\ Cardinality(DOMAIN reads) < MaxReads
    /\ reads' = reads @@ ((Cardinality(DOMAIN reads) + 1) :>
                    [endpoint |-> endpoint, pc |-> "get", cursor |-> None,
                     pagesLoaded |-> 0, allLiquidations |-> <<>>, fetches |-> 0,
                     result |-> None, threw |-> FALSE])
    /\ UNCHANGED <<upstreamTid, redis, registryVars, busVars,
                   isRefreshing, passes, ticks, upstreamRequests, lastPass, clockVars, hostVars>>

\* the cache lookup: a hit returns the cached blob, a miss goes on to the
\* first page of the 24h window
ReadCacheGet(id) ==
    /\ id \in DOMAIN reads
    /\ reads[id].pc = "get"
    /\ LET cached == redis[ReadKey(reads[id].endpoint)]
       IN reads' = [reads EXCEPT ![id] =
             IF IsSome(cached)
             THEN [@ EXCEPT !.pc = "done", !.result = cached]
             ELSE [@ EXCEPT !.pc = "fetch", !.fetches = 1]]
    /\ UNCHANGED <<upstreamTid, redis, registryVars, busVars,
                   isRefreshing, passes, ticks, upstreamRequests, lastPass, clockVars, hostVars>>

ReadFetchReturn(id) ==
    /\ id \in DOMAIN reads
    /\ reads[id].pc = "fetch"
    /\ LET r == reads[id]
           response == UpstreamPage(r.cursor, PageLimit)
           all == r.allLiquidations \o response.data
           pagesLoaded == r.pagesLoaded + 1
           more == response.has_more /\ pagesLoaded < MAX_PAGES_FOR_STATS
       IN reads' = [reads EXCEPT ![id] =
             [r EXCEPT !.allLiquidations = all, !.cursor = response.next_cursor,
                       !.pagesLoaded = pagesLoaded,
                       !.fetches = IF more THEN @ + 1 ELSE @,
                       !.pc = IF more THEN "fetch" ELSE "set",
                       !.result = IF more THEN None
                                  ELSE Some(BuildResult(r.endpoint, all))]]
    /\ UNCHANGED <<upstreamTid, redis, registryVars, busVars,
                   isRefreshing, passes, ticks, upstreamRequests, lastPass, clockVars, hostVars>>

\* the fetch throws: getAllData and getChartData throw a LiquidationsError,
\* getAllStats catches, leaves every period null and goes on to cache that
ReadFetchThrow(id) ==
    /\ id \in DOMAIN reads
    /\ reads[id].pc = "fetch"
    /\ reads' = [reads EXCEPT ![id] =
          IF @.endpoint = "getAllStats"
          THEN [@ EXCEPT !.pc = "set",
                         !.result = Some([success |-> FALSE, stats |-> NullStats])]
          ELSE [@ EXCEPT !.pc = "done", !.threw = TRUE]]
    /\ UNCHANGED <<upstreamTid, redis, registryVars, busVars,
                   isRefreshing, passes, ticks, upstreamRequests, lastPass, clockVars, hostVars>>

\* the result is cached under the key the endpoint reads, and returned
ReadCacheSet(id) ==
    /\ id \in DOMAIN reads
    /\ reads[id].pc = "set"
    /\ redis' = [redis EXCEPT ![ReadKey(reads[id].endpoint)] = reads[id].result]
    /\ expiresAt' = [expiresAt EXCEPT ![ReadKey(reads[id].endpoint)] =
                                          Some(now + STATS_CACHE_TTL)]
    /\ reads' = [reads EXCEPT ![id].pc = "done"]
    /\ UNCHANGED <<upstreamTid, registryVars, busVars,
                   isRefreshing, passes, ticks, upstreamRequests, lastPass, now, hostVars>>

\* SpecRead: the refresh loop next to calls of the read endpoints
NextRead ==
    \/ UpstreamNewEvent
    \/ Tick
    \/ \E t \in DOMAIN passes : FetchReturn(t)
    \/ \E t \in DOMAIN passes : FetchThrow(t)
    \/ \E t \in DOMAIN passes : SetDataDone(t)
    \/ \E t \in DOMAIN passes : SetStatsDone(t)
    \/ \E e \in Endpoints : ReadStart(e)
    \/ \E r \in DOMAIN reads : ReadCacheGet(r)
    \/ \E r \in DOMAIN reads : ReadFetchReturn(r)
    \/ \E r \in DOMAIN reads : ReadFetchThrow(r)
    \/ \E r \in DOMAIN reads : ReadCacheSet(r)

SpecRead == Init /\ [][NextRead]_vars

(***************************************************************************)
(* SpecErrors: GET /liquidations/recent and GET /liquidations/data when    *)
(* the upstream call of a cache miss is rejected. An error is a record     *)
(* [name, message, statusCode, code]; messages are sequences of            *)
(* characters, as String.prototype.includes searches them.                 *)
(***************************************************************************)
\* String.prototype.includes
includes(s, sub) ==
    \E i \in 0..(Len(s) - Len(sub)) : SubSeq(s, i + 1, i + Len(sub)) = sub

Str429 == <<"4", "2", "9">>
StrRateLimit == <<"r", "a", "t", "e", " ", "l", "i", "m", "i", "t">>

\* what the HTTP layer under the client rejects with: the status of the
\* upstream response and the message of the Error
UpstreamErrors ==
    { [name |-> "Error", httpStatus |-> 429,
       message |-> <<"H", "T", "T", "P", " ">> \o Str429],
      [name |-> "Error", httpStatus |-> 429,
       message |-> StrRateLimit \o <<" ", "h", "i", "t">>],
      [name |-> "Error", httpStatus |-> 429,
       message |-> <<"T", "o", "o", " ", "M", "a", "n", "y">>],
      [name |-> "Error", httpStatus |-> 503,
       message |-> <<"H", "T", "T", "P", " ", "5", "0", "3">>] }

LiquidationsError(message, statusCode, code) ==
    [name |-> "LiquidationsError", message |-> message, statusCode |-> statusCode,
     code |-> code]

\* 'API rate limit exceeded. Please try again in a few seconds.'
RateLimitExceeded ==
    LiquidationsError(<<"A", "P", "I", " ">> \o StrRateLimit \o <<" ", "e", "x", "c">>,
                      429, "RATE_LIMIT_EXCEEDED")

\* the catch block of HLIndexerLiquidationsClient.getRecentLiquidations
clientGetRecentLiquidationsCatch(error) ==
    LiquidationsError(error.message, 500, "RECENT_LIQUIDATIONS_FETCH_ERROR")

\* the catch block of LiquidationsService.getRecentLiquidations
getRecentLiquidationsCatch(error) ==
    IF error.name = "LiquidationsError" THEN error
    ELSE IF includes(error.message, Str429) \/ includes(error.message, StrRateLimit)
    THEN RateLimitExceeded
    ELSE LiquidationsError(error.message, 500, "RECENT_LIQUIDATIONS_SERVICE_ERROR")

\* the catch block of LiquidationsService.getAllData
getAllDataCatch(error) ==
    IF includes(error.message, Str429) \/ includes(error.message, StrRateLimit)
    THEN RateLimitExceeded
    ELSE LiquidationsError(error.message, 500, "ALL_DATA_ERROR")

\* the catch block of a route: the status of the HTTP response
routeCatchStatus(error) ==
    IF error.name = "LiquidationsError" THEN error.statusCode ELSE 500

\* a request of one of the two routes whose cache lookup missed: the call
\* of client.getRecentLiquidations is pending
RouteRequest(route) ==
    /\ Cardinality(DOMAIN reads) < MaxReads
    /\ reads' = reads @@ ((Cardinality(DOMAIN reads) + 1) :>
                    [route |-> route, pc |-> "fetch", upstream |-> None, status |-> 0,
                     code |-> "", message |-> <<>>])
    /\ upstreamRequests' = upstreamRequests + 1
    /\ UNCHANGED <<upstreamTid, redis, registryVars, busVars,
                   isRefreshing, passes, ticks, lastPass, clockVars, hostVars>>

\* the upstream call is rejected: client catch, service catch, route catch
RouteUpstreamError(id, error) ==
    /\ id \in DOMAIN reads
    /\ reads[id].pc = "fetch"
    /\ LET fromClient == clientGetRecentLiquidationsCatch(error)
           fromService == IF reads[id].route = "/recent"
                          THEN getRecentLiquidationsCatch(fromClient)
                          ELSE getAllDataCatch(fromClient)
       IN reads' = [reads EXCEPT ![id] =
             [@ EXCEPT !.pc = "done", !.upstream = Some(error.httpStatus),
                       !.status = routeCatchStatus(fromService),
                       !.code = fromService.code,
                       !.message = fromService.message]]
    /\ UNCHANGED <<upstreamTid, redis, registryVars, busVars,
                   isRefreshing, passes, ticks, upstreamRequests, lastPass, clockVars,
                   hostVars>>

\* the upstream answers (with one page that has no successor): res.json
RouteUpstreamAnswer(id) ==
    /\ id \in DOMAIN reads
    /\ reads[id].pc = "fetch"
    /\ reads' = [reads EXCEPT ![id] =
          [@ EXCEPT !.pc = "done", !.upstream = Some(200), !.status = 200]]
    /\ UNCHANGED <<upstreamTid, redis, registryVars, busVars,
                   isRefreshing, passes, ticks, upstreamRequests, lastPass, clockVars,
                   hostVars>>

NextErrors ==
    \/ \E r \in {"/recent", "/data"} : RouteRequest(r)
    \/ \E id \in DOMAIN reads, e \in UpstreamErrors : RouteUpstreamError(id, e)
    \/ \E id \in DOMAIN reads : RouteUpstreamAnswer(id)

SpecErrors == Init /\ [][NextErrors]_vars

(***************************************************************************)
(* SpecMarker: the writers of the last-observed-id marker.                 *)
(***************************************************************************)
NextMarker ==
    \/ UpstreamNewEvent
    \/ /\ broadcasts < MaxBroadcasts
       /\ \E b \in Batches : broadcastNewLiquidations(b)
    \/ BroadcastPublish
    \/ \E t \in 0..MaxTid : setLastSeenTid(t)
    \/ HandleBroadcast

SpecMarker == Init /\ [][NextMarker]_vars

(***************************************************************************)
(* SpecPublish: refresh passes that succeed, next to                       *)
(* broadcastNewLiquidations with a publish that may fail.                  *)
(***************************************************************************)
NextPublish ==
    \/ UpstreamNewEvent
    \/ Tick
    \/ \E t \in DOMAIN passes : FetchReturn(t)
    \/ \E t \in DOMAIN passes : SetDataDone(t)
    \/ \E t \in DOMAIN passes : SetStatsDone(t)
    \/ /\ broadcasts < MaxBroadcasts
       /\ \E b \in Batches : broadcastNewLiquidations(b)
    \/ BroadcastPublish
    \/ BroadcastPublishThrow
    \/ HandleBroadcast

SpecPublish == Init /\ [][NextPublish]_vars

(***************************************************************************)
(* SpecTtl: the healthy steady state on a clock. startPolling arms a       *)
(* timeout of INITIAL_REFRESH_DELAY_MS and an interval of                  *)
(* REFRESH_INTERVAL_MS; every pass succeeds and takes less than one step   *)
(* of the clock; a key leaves the cache when its TTL has elapsed.          *)
(***************************************************************************)
ClockStep == INITIAL_REFRESH_DELAY_MS \div 1000

\* the number of timer callbacks that startPolling has made due at time t
TicksDue(t) ==
    (IF t * 1000 >= INITIAL_REFRESH_DELAY_MS THEN 1 ELSE 0)
        + ((t * 1000) \div REFRESH_INTERVAL_MS)

TimedTick ==
    /\ ticks < TicksDue(now)
    /\ Tick

\* the clock advances once the callbacks due now have run to completion
ClockElapse ==
    /\ passes = <<>>
    /\ ticks >= TicksDue(now)
    /\ now + ClockStep <= MaxClock
    /\ now' = now + ClockStep
    /\ LET expired == {k \in RedisKeys :
                          IsSome(expiresAt[k]) /\ Val(expiresAt[k]) <= now + ClockStep}
       IN /\ redis' = [k \in RedisKeys |-> IF k \in expired THEN None ELSE redis[k]]
          /\ expiresAt' = [k \in RedisKeys |->
                              IF k \in expired THEN None ELSE expiresAt[k]]
    /\ UNCHANGED <<upstreamTid, registryVars, busVars,
                   isRefreshing, passes, ticks, upstreamRequests, lastPass, reads, hostVars>>

NextTtl ==
    \/ UpstreamNewEvent
    \/ TimedTick
    \/ \E t \in DOMAIN passes : FetchReturn(t)
    \/ \E t \in DOMAIN passes : SetDataDone(t)
    \/ \E t \in DOMAIN passes : SetStatsDone(t)
    \/ ClockElapse

SpecTtl == Init /\ [][NextTtl]_vars

(***************************************************************************)
(* SpecShutdown: the SIGINT / SIGTERM handler among the timers.            *)
(*   shutdownPc = "running"     no signal so far                           *)
(*   shutdownPc = "disconnect"  stopAllPolling has run, prisma.$disconnect *)
(*                              is pending                                 *)
(*   shutdownPc = "exited"      process.exit(0): nothing runs any more     *)
(***************************************************************************)
\* LiquidationsService.stopPolling: clearInterval(refreshTimer); the handle
\* of the setTimeout of startPolling is not kept
stopPolling ==
    /\ refreshTimer' = FALSE
    /\ UNCHANGED initialRefreshTimeout

\* ClientInitializerService.stopAllPolling: stopPolling of every client that
\* has one (the SSE manager is not one of the clients)
stopAllPolling ==
    /\ stopPolling
    /\ UNCHANGED heartbeatTimer

\* process.on('SIGINT' | 'SIGTERM'), up to the await
SignalHandler ==
    /\ shutdownPc = "running"
    /\ stopAllPolling
    /\ shutdownPc' = "disconnect"
    /\ UNCHANGED <<upstreamTid, redis, registryVars, busVars, isRefreshing, passes, ticks,
                   upstreamRequests, lastPass, clockVars, reads, circuit, calc,
                   subscription>>

\* prisma.$disconnect() resolves: process.exit(0)
ProcessExit ==
    /\ shutdownPc = "disconnect"
    /\ shutdownPc' = "exited"
    /\ UNCHANGED <<upstreamTid, redis, registryVars, busVars, isRefreshing, passes, ticks,
                   upstreamRequests, lastPass, clockVars, reads, circuit, calc,
                   refreshTimer, initialRefreshTimeout, heartbeatTimer, subscription>>

\* the setTimeout callback of startPolling, 5 s after it
InitialRefresh ==
    /\ shutdownPc # "exited"
    /\ initialRefreshTimeout
    /\ initialRefreshTimeout' = FALSE
    /\ ticks < MaxTicks
    /\ ticks' = ticks + 1
    /\ refreshAllData(ticks + 1)

\* the timers, the request handlers and the awaits of a pass run only while the
\* process lives
NextShutdown ==
    \/ /\ shutdownPc # "exited"
       /\ nextReq <= MaxDeliveryRequests
       /\ \E ip \in Ips, q \in DeliveryQueries : StreamRequest(ip, q)
    \/ InitialRefresh
    \/ /\ shutdownPc # "exited"
       /\ Tick
    \/ /\ shutdownPc # "exited"
       /\ \E t \in DOMAIN passes : FetchReturn(t)
    \/ /\ shutdownPc # "exited"
       /\ \E t \in DOMAIN passes : SetDataDone(t)
    \/ /\ shutdownPc # "exited"
       /\ \E t \in DOMAIN passes : SetStatsDone(t)
    \/ /\ shutdownPc # "exited"
       /\ Heartbeat
    \/ SignalHandler
    \/ ProcessExit

SpecShutdown == Init /\ [][NextShutdown]_vars

(***************************************************************************)
(* SpecCircuit: the fetches of HLIndexerLiquidationsClient and the circuit *)
(* breaker of the upstream API.                                            *)
(***************************************************************************)
\* the breaker opens after a failed upstream call (it stays open for the
\* runs of the model)
CircuitTrip ==
    /\ circuit = "closed"
    /\ lastPass.outcome = "failed" /\ lastPass.at = "fetch"
    /\ circuit' = "open"
    /\ UNCHANGED <<upstreamTid, redis, registryVars, busVars, isRefreshing, passes, ticks,
                   upstreamRequests, lastPass, clockVars, reads,
                   refreshTimer, heartbeatTimer, shutdownPc, initialRefreshTimeout, calc,
                   subscription>>

\* LiquidationsService.getLiquidations -> client.getLiquidations:
\* this.get(endpoint) sends the request, whatever the breaker says
getLiquidations ==
    /\ upstreamRequests < MaxUpstreamRequests
    /\ upstreamRequests' = upstreamRequests + 1
    /\ UNCHANGED <<upstreamTid, redis, registryVars, busVars, isRefreshing, passes, ticks,
                   lastPass, clockVars, reads, hostVars>>

NextCircuit ==
    \/ UpstreamNewEvent
    \/ Tick
    \/ \E t \in DOMAIN passes : FetchReturn(t)
    \/ \E t \in DOMAIN passes : FetchThrow(t)
    \/ \E t \in DOMAIN passes : SetDataDone(t)
    \/ \E t \in DOMAIN passes : SetStatsDone(t)
    \/ getLiquidations
    \/ CircuitTrip

SpecCircuit == Init /\ [][NextCircuit]_vars

(***************************************************************************)
(* SpecBatch: broadcastNewLiquidations handed a list in the order of the   *)
(* fetch that produced it (order=DESC, newest first) or in ascending       *)
(* order.                                                                  *)
(***************************************************************************)
FetchedBatches ==
    { Desc(S) : S \in SUBSET (1..upstreamTid) \ {{}} } \cup Batches

NextBatch ==
    \/ UpstreamNewEvent
    \/ /\ nextReq <= MaxDeliveryRequests
       /\ \E ip \in Ips, q \in DeliveryQueries : StreamRequest(ip, q)
    \/ /\ broadcasts < MaxBroadcasts
       /\ \E b \in FetchedBatches : broadcastNewLiquidations(b)
    \/ BroadcastPublish
    \/ HandleBroadcast

SpecBatch == Init /\ [][NextBatch]_vars

(***************************************************************************)
(* SpecViews: the derived-view builder applied to event lists. An event    *)
(* list is drawn at the start; BuildViews is the loop over the periods of  *)
(* buildAndCacheUnifiedData with its two clock reads.                      *)
(***************************************************************************)
Event(tid, coin, liq_dir, notional_total, timeMs, time_ms) ==
    [tid |-> tid, coin |-> coin, liq_dir |-> liq_dir, notional_total |-> notional_total,
     liquidated_user |-> UserA, time |-> TimeString(timeMs), time_ms |-> time_ms]

\* events ten minutes old (two coins with the same notional), at the start
\* of the 2h window, after now, with a direction that is neither Long nor
\* Short and a corrupted time_ms, and with notionals below a cent
EventPool ==
    { Event(1, BTC, "Long", 100000, Now0 - 600000, Now0 - 600000),
      Event(2, ALT, "Short", 100000, Now0 - 600000, Now0 - 600000),
      Event(3, BTC, "Long", 250000, Now0 - 7200000, Now0 - 7200000),
      Event(4, ETH, "Short", 50000, Now0 + 1000, Now0 + 1000),
      Event(5, ALT, "", 3000, Now0 - 10800000, Now0 + 86400000),
      Event(6, ETH, "Long", 5, Now0 - 3600000, Now0 - 3600000),
      Event(7, BTC, "Short", 5, Now0 - 3600000, Now0 - 3600000) }

\* scenario S2: a single large long, ten minutes old
S2Event == Event(10, BTC, "Long", 1234567890, Now0 - 600000, Now0 - 600000)

EventLists ==
    UNION { [1..n -> EventPool] : n \in 0..MaxEvents } \cup { <<S2Event>> }

InitViews ==
    /\ InitProgram
    /\ calc \in { [NoCalc EXCEPT !.liquidations = l] : l \in EventLists }

BuildViews ==
    /\ ~calc.done
    /\ \E skew \in 0..MaxClockSkew :
          calc' = [calc EXCEPT !.done = TRUE, !.now = Now0, !.bucketNow = Now0 + skew,
                               !.periods = periodsData(calc.liquidations, Now0, Now0 + skew)]
    /\ UNCHANGED <<upstreamTid, redis, registryVars, busVars, isRefreshing, passes, ticks,
                   upstreamRequests, lastPass, clockVars, reads, processVars,
                   initialRefreshTimeout, subscription>>

NextViews == BuildViews

SpecViews == InitViews /\ [][NextViews]_vars

(***************************************************************************)
(* Properties.                                                             *)
(***************************************************************************)
\* the liquidation frames written to a response, in the order written
LiquidationFrames(r) == SelectSeq(responses[r].frames, LAMBDA f : f.type = "liquidation")
LiveFrames(r) == SelectSeq(LiquidationFrames(r), LAMBDA f : f.via = "live")
SessionsOf(ip) == {c \in DOMAIN clients : clients[c].ip = ip}
\* a step that serves a new /stream request
IsStreamRequestStep == nextReq' = nextReq + 1

\* C1 (SpecRefresh). Coalescing: at most one refresh pass is active at a
\* time, and a timer tick that arrives while a pass is in progress issues no
\* upstream fetch, writes no cache key and starts no pass.
Thm_C1_Coalescing ==
    /\ [](Cardinality(DOMAIN passes) <= 1)
    /\ [][(passes # <<>> /\ ticks' = ticks + 1) =>
            /\ upstreamRequests' = upstreamRequests
            /\ redis' = redis
            /\ passes' = passes]_vars

\* C1 witness: a tick was skipped while a pass, which has loaded a page, is
\* still in progress.
Wit_C1_TickSkippedDuringPass ==
    /\ lastPass.outcome = "skipped"
    /\ \E t \in DOMAIN passes : passes[t].pagesLoaded >= 1 /\ lastPass.tick > t

\* C2 (Spec), the claim as stated: no session is written the same event
\* twice by broadcast handling, also when the same message is handled twice.
Cex_C2_LiveEventAtMostOnce ==
    \A r \in DOMAIN responses :
        \A i, j \in DOMAIN LiveFrames(r) :
            i # j => LiveFrames(r)[i].id # LiveFrames(r)[j].id

\* C3 (Spec), the claim as stated: of any two liquidation frames written to
\* a session, replay and live together, the earlier carries the smaller tid.
Cex_C3_FramesAscendingTid ==
    \A r \in DOMAIN responses :
        \A i, j \in DOMAIN LiquidationFrames(r) :
            i < j => LiquidationFrames(r)[i].id < LiquidationFrames(r)[j].id

\* C4 (Spec), the claim as stated: once the replay of a session that resumed
\* from L is done, every event that was broadcast before the attach with
\* tid > L and passes the session's filter has been written by the replay,
\* the replayed frames ascend by tid, and no live frame precedes a replayed
\* one.
ReplayedIds(r) ==
    {LiquidationFrames(r)[i].id :
        i \in {k \in DOMAIN LiquidationFrames(r) : LiquidationFrames(r)[k].via = "replay"}}
SessionFilters(r) ==
    [coin |-> responses[r].filterQuery.coin,
     minAmountDollars |-> responses[r].filterQuery.min_amount_dollars]

Cex_C4_ResumeReplaysMissedFirst ==
    \A r \in DOMAIN responses :
        responses[r].replay.state = "done" =>
            /\ \A t \in responses[r].replay.missed :
                   PassesFilters(t, SessionFilters(r)) => t \in ReplayedIds(r)
            /\ \A i, j \in DOMAIN LiquidationFrames(r) :
                   i < j =>
                       /\ ~(/\ LiquidationFrames(r)[i].via = "live"
                            /\ LiquidationFrames(r)[j].via = "replay")
                       /\ (/\ LiquidationFrames(r)[i].via = "replay"
                           /\ LiquidationFrames(r)[j].via = "replay")
                          => LiquidationFrames(r)[i].id < LiquidationFrames(r)[j].id

\* C5 (Spec), the claim as stated: every liquidation frame written to a
\* session passes every criterion its request gave: coin and user compared
\* ignoring case, notional >= the minimum amount.
PassesRequestedFilter(t, q) ==
    /\ (TruthyString(q.coin) =>
            toUpperCase(Liquidation(t).coin) = toUpperCase(Val(q.coin)))
    /\ (TruthyNumber(q.min_amount_dollars) =>
            Liquidation(t).notional_total >= Val(q.min_amount_dollars))
    /\ (TruthyString(q.user) =>
            toUpperCase(Liquidation(t).liquidated_user) = toUpperCase(Val(q.user)))

Cex_C5_FramesPassRequestedFilter ==
    \A r \in DOMAIN responses :
        \A i \in DOMAIN LiquidationFrames(r) :
            PassesRequestedFilter(LiquidationFrames(r)[i].id, responses[r].filterQuery)

\* C6 (SpecAdmission). Admission limits: the registry never holds more than
\* MAX_TOTAL_CONNECTIONS sessions nor more than MAX_CONNECTIONS_PER_IP
\* sessions of one IP; a request that would exceed either limit is denied,
\* and every other request is admitted, whatever the other IP holds.
Thm_C6_AdmissionLimits ==
    /\ [](/\ Cardinality(DOMAIN clients) <= MAX_TOTAL_CONNECTIONS
          /\ \A ip \in Ips : Cardinality(SessionsOf(ip)) <= MAX_CONNECTIONS_PER_IP)
    /\ [][IsStreamRequestStep =>
            LET id == nextReq
                ip == responses'[id].ip
                wouldExceed == \/ Cardinality(DOMAIN clients) + 1 > MAX_TOTAL_CONNECTIONS
                               \/ Cardinality(SessionsOf(ip)) + 1 > MAX_CONNECTIONS_PER_IP
            IN IF wouldExceed
               THEN id \notin DOMAIN clients' /\ responses'[id].status = 429
               ELSE id \in DOMAIN clients' /\ responses'[id].status = 200]_vars

\* C6 witness: a request was denied for its IP's limit, a later request of
\* the other IP was admitted, and a request is denied for the server limit
\* while its own IP is under its limit.
Wit_C6_DeniedPerIpAndTotal ==
    \E d, a, e \in DOMAIN responses :
        /\ responses[d].status = 429 /\ a > d /\ a \in DOMAIN clients
        /\ responses[a].ip # responses[d].ip
        /\ Cardinality(SessionsOf(responses[d].ip)) = MAX_CONNECTIONS_PER_IP
        /\ e > a /\ responses[e].status = 429
        /\ Cardinality(SessionsOf(responses[e].ip)) < MAX_CONNECTIONS_PER_IP
        /\ Cardinality(DOMAIN clients) = MAX_TOTAL_CONNECTIONS

\* C7 (SpecAdmission). A denied attach answers HTTP 429 with the code
\* SSE_CONNECTION_LIMIT, writes no stream header and no frame to the
\* response, registers no session and changes no per-IP counter.
Thm_C7_DeniedLeavesRegistry ==
    /\ [](\A r \in DOMAIN responses :
            responses[r].status = 429 =>
                /\ responses[r].code = "SSE_CONNECTION_LIMIT"
                /\ ~responses[r].sseHeaders
                /\ responses[r].frames = <<>>
                /\ r \notin DOMAIN clients)
    /\ [][(IsStreamRequestStep /\ ~Admitted(responses'[nextReq].ip)) =>
            /\ responses'[nextReq].status = 429
            /\ responses'[nextReq].frames = <<>>
            /\ ~responses'[nextReq].sseHeaders
            /\ clients' = clients
            /\ ipConnectionCount' = ipConnectionCount]_vars

\* C7 witness: a request was denied while the registry holds sessions.
Wit_C7_Denied ==
    \E r \in DOMAIN responses :
        /\ responses[r].status = 429
        /\ Cardinality(SessionsOf(responses[r].ip)) = MAX_CONNECTIONS_PER_IP
        /\ ipConnectionCount[responses[r].ip] = MAX_CONNECTIONS_PER_IP

\* C8 (SpecMarker), the claim as stated: no write of the marker stores a
\* value smaller than the value already stored.
Cex_C8_MarkerNonDecreasing ==
    [][IsSome(getLastSeenTid) =>
          IsSome(getLastSeenTid') /\ Val(getLastSeenTid') >= Val(getLastSeenTid)]_vars

\* C9 (Spec), the claim as stated: a session's lastEventId never decreases
\* while it is attached.
Cex_C9_LastEventIdNonDecreasing ==
    [][\A c \in DOMAIN clients \cap DOMAIN clients' :
          IsSome(clients[c].lastEventId) =>
              /\ IsSome(clients'[c].lastEventId)
              /\ Val(clients'[c].lastEventId) >= Val(clients[c].lastEventId)]_vars

\* C10 (SpecRefresh). A pass that ends because an upstream fetch throws
\* leaves every cache key, the marker included, with the value it had when
\* the pass began, has written nothing, and publishes no broadcast message.
Thm_C10_FailedPassChangesNothing ==
    [][\A t \in DOMAIN passes :
          (passes[t].pc = "fetch" /\ t \notin DOMAIN passes') =>
              /\ redis' = passes[t].before.redis
              /\ channel' = passes[t].before.channel
              /\ lastPass'.outcome = "failed"
              /\ lastPass'.wrote = {}]_vars

\* C10 witness: a pass failed at a fetch while the cache holds the blobs of
\* an earlier pass.
Wit_C10_FetchFailedAfterCachedPass ==
    /\ lastPass.outcome = "failed"
    /\ lastPass.at = "fetch"
    /\ IsSome(redis[ALL_DATA_KEY])
    /\ IsSome(redis[STATS_WRITE_KEY])
    /\ upstreamRequests >= 3

\* C11 (SpecRefresh), the claim as stated: whenever no pass is in progress,
\* the composite blob and the stats blob that the cache holds were derived
\* from the same event list.
Cex_C11_BlobsFromOneEventList ==
    (/\ passes = <<>>
     /\ IsSome(redis[ALL_DATA_KEY])
     /\ IsSome(redis[STATS_WRITE_KEY]))
        => Val(redis[ALL_DATA_KEY]).periods = Val(redis[STATS_WRITE_KEY]).stats

\* the keys the read endpoints consult: getAllData, getAllStats, getChartData
ReadKeys == {ALL_DATA_KEY, STATS_READ_KEY} \cup ChartKeys

\* C12 (SpecRefresh), the claim as stated: once a pass has completed
\* successfully, every key the read endpoints consult is present.
Cex_C12_ReadKeysPresentAfterPass ==
    (passes = <<>> /\ lastPass.outcome = "ok") =>
        \A k \in ReadKeys : IsSome(redis[k])

\* the events published on the channel so far
PublishedTids == handled \cup UNION {Range(channel[i]) : i \in DOMAIN channel}

\* C13 (SpecPublish), the claim as stated: the marker is advanced only after
\* the publish, so that when no broadcast call is in progress the event the
\* marker names has been published.
Cex_C13_MarkerAdvancedAfterPublish ==
    (bcast = None /\ IsSome(getLastSeenTid)) => Val(getLastSeenTid) \in PublishedTids

\* C14 (SpecTtl), the claim as stated: in the healthy steady state, once a
\* pass has succeeded, every key it wrote is present at any later time.
Cex_C14_KeysOutliveRefreshInterval ==
    lastPass.outcome = "ok" => \A k \in lastPass.wrote : IsSome(redis[k])

\* C15 (SpecRead), the claim as stated: no call of a read endpoint issues a
\* fetch of the 24h window upstream.
Cex_C15_ReadsNeverFetchUpstream ==
    \A r \in DOMAIN reads : reads[r].fetches = 0

\* C16 (SpecRead), the claim as stated: the shared cache keys change only
\* in a step of a refresh pass.
Cex_C16_OnlyPassesWriteCache ==
    [][redis' # redis => passes' # passes]_vars

\* C17 (SpecRefresh). A pass never propagates an error to the timer:
\* whichever await rejects, the pass ends with the guard cleared, so that
\* isRefreshing is set only while a pass is in progress, and a tick that
\* finds no pass in progress starts one.
Thm_C17_FailedPassFreesTimer ==
    /\ [](isRefreshing <=> passes # <<>>)
    /\ [][(ticks' = ticks + 1 /\ passes = <<>>) =>
            /\ (ticks + 1) \in DOMAIN passes'
            /\ lastPass' = lastPass]_vars
    /\ [][\A t \in DOMAIN passes : t \notin DOMAIN passes' =>
            /\ lastPass'.tick = t
            /\ lastPass'.outcome \in {"ok", "failed"}
            /\ ~isRefreshing']_vars

\* C17 witness: a pass failed at its second cache write, and the pass of a
\* later tick is in progress and has loaded a page.
Wit_C17_PassRunsAfterFailedPass ==
    \E t \in DOMAIN passes :
        /\ lastPass.outcome = "failed"
        /\ lastPass.at = "setStats"
        /\ lastPass.tick < t
        /\ passes[t].pagesLoaded >= 1

\* C18 (SpecDelivery), the claim as stated: a step that hands a frame to
\* the writer of a session whose client does not read removes the session.
Cex_C18_SlowConsumerCutOff ==
    [][\A c \in DOMAIN clients :
          (/\ c \in writeStalls
           /\ Len(responses'[c].frames) > Len(responses[c].frames))
             => c \notin DOMAIN clients']_vars

\* the steps of the subscription callback and of the heartbeat timer, and
\* the frames such a step has for the session c
IsHandleStep == channel # <<>> /\ channel' = Tail(channel)
IsHeartbeatStep == heartbeats' = heartbeats + 1
FramesFor(c) ==
    IF IsHeartbeatStep THEN <<HeartbeatFrame>>
    ELSE LET passing == SelectSeq(Head(channel),
                                  LAMBDA t : PassesFilters(t, clients[c].filters))
         IN [i \in DOMAIN passing |-> LiquidationFrame(passing[i], "live")]

\* every IP's counter is the number of its sessions, and no counter is 0
CountersConsistent ==
    \A ip \in Ips :
        IF SessionsOf(ip) = {} THEN ip \notin DOMAIN ipConnectionCount
        ELSE /\ ip \in DOMAIN ipConnectionCount
             /\ ipConnectionCount[ip] = Cardinality(SessionsOf(ip))

\* C19 (SpecDelivery). In a broadcast delivery or a heartbeat tick, a
\* session whose write throws is removed and is written nothing, every
\* other session stays attached and is written all the frames the step has
\* for it, and the per-IP counters count the sessions that remain.
Thm_C19_WriteErrorRemovesOnlyThatSession ==
    /\ [][(IsHandleStep \/ IsHeartbeatStep) =>
            \A c \in DOMAIN clients :
                IF c \in writeFails /\ FramesFor(c) # <<>>
                THEN /\ c \notin DOMAIN clients'
                     /\ responses'[c].frames = responses[c].frames
                ELSE /\ c \in DOMAIN clients'
                     /\ responses'[c].frames = responses[c].frames \o FramesFor(c)]_vars
    /\ []CountersConsistent

\* C19 witness: the first session was removed by a failed write, and the
\* session of the same IP attached after it has a live frame and is
\* counted once.
Wit_C19_LaterSessionServed ==
    \E r, o \in DOMAIN responses :
        /\ r < o
        /\ r \in writeFails /\ r \notin DOMAIN clients
        /\ o \in DOMAIN clients
        /\ responses[o].ip = responses[r].ip
        /\ LiveFrames(o) # <<>>
        /\ LiveFrames(r) = <<>>
        /\ heartbeats = 0
        /\ ipConnectionCount[responses[o].ip] = 1

\* C20 (SpecDetach). removeClient is idempotent: on every reachable
\* registry a second removeClient(id) changes nothing, removeClient of an
\* id that is not attached changes nothing, and a close or error handler
\* that fires for a session already removed leaves the sessions and the
\* counters as they are.
Thm_C20_DetachIdempotent ==
    /\ [](\A id \in 1..nextReq :
            LET R1 == removeClient(Registry, id)
            IN /\ removeClient(R1, id) = R1
               /\ id \notin DOMAIN clients => R1 = Registry)
    /\ [][\A id \in DOMAIN detaches' :
            (/\ detaches'[id] > (IF id \in DOMAIN detaches THEN detaches[id] ELSE 0)
             /\ id \notin DOMAIN clients)
                => clients' = clients /\ ipConnectionCount' = ipConnectionCount]_vars
    /\ [](\A ip \in Ips :
            (IF ip \in DOMAIN ipConnectionCount THEN ipConnectionCount[ip] ELSE 0)
                = Cardinality(SessionsOf(ip)))

\* C20 witness: a session was removed by a failed write and then both of
\* its handlers fired, while another session of its IP stays counted.
Wit_C20_DetachedThreeTimes ==
    \E r, o \in DOMAIN responses :
        /\ r \in writeFails /\ heartbeats = 1
        /\ r \in DOMAIN detaches /\ detaches[r] = MaxDetaches
        /\ o \in DOMAIN clients /\ o \notin writeFails
        /\ responses[o].ip = responses[r].ip
        /\ Len(responses[o].frames) = 2
        /\ Len(responses[r].frames) = 1
        /\ ipConnectionCount[responses[o].ip] = 1

\* C21: once the signal handler has done its shutdown work (stopAllPolling
\* has returned), no refresh pass starts, not even the initial pass
\* scheduled 5 s after startPolling, no heartbeat fires, the heartbeat timer
\* is cancelled and the registry holds no session.
Cex_C21_NothingRunsAfterShutdown ==
    /\ [][shutdownPc # "running"
            => /\ DOMAIN passes' \subseteq DOMAIN passes
               /\ heartbeats' = heartbeats]_vars
    /\ [](shutdownPc # "running" => ~heartbeatTimer /\ clients = <<>>)

\* C22: every upstream fetch of liquidations goes through the circuit
\* breaker: while the breaker is open no step sends a request upstream,
\* neither getRecentLiquidations (the refresh pass) nor getLiquidations.
Cex_C22_OpenCircuitSendsNothing ==
    [][circuit = "open" => upstreamRequests' = upstreamRequests]_vars

\* the frames a step appends to the response r
WrittenInStep(r) ==
    SubSeq(responses'[r].frames, Len(responses[r].frames) + 1, Len(responses'[r].frames))

\* C23: within a single broadcast message the events written to each
\* session are in ascending tid order, whatever the order of the list that
\* was handed to broadcastNewLiquidations.
Cex_C23_MessageDeliveredAscending ==
    [][IsHandleStep =>
          \A r \in DOMAIN responses :
              \A i, j \in DOMAIN WrittenInStep(r) :
                  i < j => WrittenInStep(r)[i].id < WrittenInStep(r)[j].id]_vars

\* the events of the list under aggregation that lie in a period, and the
\* published parts of a period
InPeriod(liq, period) ==
    getTime(liq.time) >= calc.now - PERIOD_CONFIG(period).hours * 60 * 60 * 1000
PeriodEvents(period) == SelectSeq(calc.liquidations, LAMBDA liq : InPeriod(liq, period))
StatsOf(period) == calc.periods[period].stats
BucketsOf(period) == calc.periods[period].chart.buckets
NonZeroBuckets(period) ==
    {i \in DOMAIN BucketsOf(period) : BucketsOf(period)[i].liquidationsCount # 0}

\* C24 (SpecViews): for every period and every event list, the counts of
\* the statistics record add up, longCount + shortCount = count, also when
\* an event's direction is neither Long nor Short, and over notionals that
\* are whole dollars longVolume + shortVolume = totalVolume.
Thm_C24_LongPlusShortIsTotal ==
    calc.done =>
        \A period \in Periods :
            /\ StatsOf(period).liquidationsCount = Len(PeriodEvents(period))
            /\ StatsOf(period).longCount + StatsOf(period).shortCount
                   = StatsOf(period).liquidationsCount
            /\ (\A i \in DOMAIN calc.liquidations :
                     calc.liquidations[i].notional_total % 1000 = 0)
                  => StatsOf(period).longVolume + StatsOf(period).shortVolume
                         = StatsOf(period).totalVolume

\* C24 witness: a built period holds a Long event and an event whose
\* direction is neither Long nor Short, counted as short.
Wit_C24_UnknownDirectionCounted ==
    /\ calc.done
    /\ \E i, j \in DOMAIN PeriodEvents("4h") :
          /\ PeriodEvents("4h")[i].liq_dir = ""
          /\ PeriodEvents("4h")[j].liq_dir = "Long"
    /\ StatsOf("4h").shortCount = 1 /\ StatsOf("4h").longCount = 1
    /\ StatsOf("4h").shortVolume = 3000

\* C25 (SpecViews): a period with no events has a statistics record, not
\* null, with every numeric field 0, avgSize 0 and topCoin "N/A".
Thm_C25_EmptyPeriodZeroStats ==
    calc.done =>
        \A period \in Periods :
            PeriodEvents(period) = <<>> =>
                StatsOf(period) =
                    [totalVolume |-> 0, liquidationsCount |-> 0, longCount |-> 0,
                     shortCount |-> 0, topCoin |-> NA, topCoinVolume |-> 0,
                     avgSize |-> 0, maxLiq |-> 0, longVolume |-> 0, shortVolume |-> 0]

\* C25 witness: the views were built from a list whose only event is older
\* than 2h: the 2h period is empty, the 4h period is not.
Wit_C25_EmptyPeriodBuilt ==
    /\ calc.done
    /\ calc.liquidations # <<>>
    /\ PeriodEvents("2h") = <<>>
    /\ StatsOf("2h").topCoin = NA
    /\ StatsOf("4h").liquidationsCount = 1

\* C26 (SpecViews): for every event list the chart of a period of h hours
\* and bucket width w has ceil(h*3600*1000 / w) buckets, 24, 48, 32, 48, 48
\* for 2h, 4h, 8h, 12h, 24h; bucket i is at start + i*w, ascending, start
\* being the clock read of the aggregation minus h hours; with no events
\* every bucket field is 0.
Thm_C26_BucketGrid ==
    calc.done =>
        \A period \in Periods :
            LET config == PERIOD_CONFIG(period)
                start == calc.bucketNow - config.hours * 60 * 60 * 1000
                buckets == BucketsOf(period)
            IN /\ Len(buckets) = (CASE period = "2h" -> 24 [] period = "4h" -> 48
                                    [] period = "8h" -> 32 [] period = "12h" -> 48
                                    [] period = "24h" -> 48)
               /\ Len(buckets) * config.intervalMs >= config.hours * 60 * 60 * 1000
               /\ (Len(buckets) - 1) * config.intervalMs < config.hours * 60 * 60 * 1000
               /\ \A i \in DOMAIN buckets :
                     /\ buckets[i].timestampMs = start + (i - 1) * config.intervalMs
                     /\ getTime(buckets[i].timestamp) = buckets[i].timestampMs
                     /\ PeriodEvents(period) = <<>> =>
                           buckets[i] = emptyBucket(buckets[i].timestampMs)
               /\ calc.periods[period].chart.interval = config.interval

\* C26 witness: the views were built from the empty list.
Wit_C26_EmptyListBuilt ==
    /\ calc.done
    /\ calc.liquidations = <<>>
    /\ Len(BucketsOf("8h")) = 32
    /\ BucketsOf("2h")[24].timestampMs = calc.bucketNow - 5 * 60 * 1000

\* C27 (SpecViews), the claim as stated: topCoin is the coin with the
\* largest accumulated volume of the period and, when several coins tie for
\* it, the lexicographically smallest of them, whatever the order of the
\* events.
Cex_C27_TopCoinTieBreak ==
    calc.done =>
        \A period \in Periods :
            LET events == PeriodEvents(period)
                coins == {events[i].coin : i \in DOMAIN events}
                volume == [c \in coins |->
                              calculateStats(SelectSeq(events, LAMBDA e : e.coin = c))
                                  .totalVolume]
                letters == <<"A", "B", "C", "E", "H", "L", "T">>
                code(ch) == CHOOSE n \in DOMAIN letters : letters[n] = ch
                \* s before t in lexicographic order (coins of equal length)
                before(s, t) == \E n \in DOMAIN s :
                                    /\ \A m \in 1..(n - 1) : s[m] = t[m]
                                    /\ code(s[n]) < code(t[n])
                top == {c \in coins : \A d \in coins : volume[d] <= volume[c]}
            IN coins # {} =>
                  /\ StatsOf(period).topCoin \in top
                  /\ \A d \in top : ~before(d, StatsOf(period).topCoin)

\* C28 (SpecViews), the claim as stated: in every period the buckets'
\* totalVolume add up to the totalVolume of the statistics, up to the
\* rounding of a cent per bucket.
Cex_C28_BucketSumIsTotal ==
    calc.done =>
        \A period \in Periods :
            LET buckets == BucketsOf(period)
                sum[i \in 0..Len(buckets)] ==
                    IF i = 0 THEN 0 ELSE sum[i - 1] + buckets[i].totalVolume
                diff == sum[Len(buckets)] - StatsOf(period).totalVolume
            IN diff <= 10 * Len(buckets) /\ -diff <= 10 * Len(buckets)

\* C29 (SpecViews), as amended: for the list of scenario S2 the 2h
\* statistics are as the scenario says, and the 2h chart has exactly one
\* non-zero bucket, at index 22 when the aggregation reads the same clock
\* value as the cutoff and at index 21 when it reads a later one.
Thm_C29_ScenarioS2 ==
    (calc.done /\ calc.liquidations = <<S2Event>>) =>
        /\ StatsOf("2h") =
              [totalVolume |-> 1234567890, liquidationsCount |-> 1, longCount |-> 1,
               shortCount |-> 0, topCoin |-> BTC, topCoinVolume |-> 1234567890,
               avgSize |-> 1234567890, maxLiq |-> 1234567890,
               longVolume |-> 1234567890, shortVolume |-> 0]
        /\ NonZeroBuckets("2h") = {IF calc.bucketNow = calc.now THEN 22 + 1 ELSE 21 + 1}
        /\ \A i \in NonZeroBuckets("2h") :
              /\ BucketsOf("2h")[i].totalVolume = 1234567890
              /\ BucketsOf("2h")[i].longVolume = 1234567890
              /\ BucketsOf("2h")[i].longCount = 1

\* C29 witness: the views of scenario S2 were built.
Wit_C29_ScenarioS2Built ==
    /\ calc.done
    /\ calc.liquidations = <<S2Event>>
    /\ calc.bucketNow = calc.now
    /\ BucketsOf("2h")[23].liquidationsCount = 1

\* C29, the claim as stated: the one non-zero bucket of scenario S2 is at
\* index 2 of the 2h chart.
Cex_C29_ScenarioS2BucketIndex2 ==
    (calc.done /\ calc.liquidations = <<S2Event>>) => NonZeroBuckets("2h") = {2 + 1}

\* the lists that differ from the list under aggregation only in time_ms
TimeMsVariants ==
    LET values == {0, Now0 - 600000, Now0 + 86400000}
    IN { [i \in DOMAIN calc.liquidations |->
             [calc.liquidations[i] EXCEPT !.time_ms = f[i]]] :
         f \in [DOMAIN calc.liquidations -> values] }

\* C30 (SpecViews): the statistics and buckets published for a list are
\* those of every list that differs from it only in the events' time_ms,
\* under the same clock: no derived view depends on time_ms.
Thm_C30_TimeMsIgnored ==
    calc.done =>
        \A other \in TimeMsVariants :
            periodsData(other, calc.now, calc.bucketNow) = calc.periods

\* C30 witness: the views were built from an event whose time_ms is not the
\* time of its time string, and the event is in the window of its time
\* string.
Wit_C30_CorruptTimeMsBuilt ==
    /\ calc.done
    /\ \E i \in DOMAIN calc.liquidations :
          /\ calc.liquidations[i].time_ms # getTime(calc.liquidations[i].time)
          /\ InPeriod(calc.liquidations[i], "4h")
    /\ NonZeroBuckets("4h") # {}

(***************************************************************************)
(* C31: the window a pass assembles has no two events with the same tid,   *)
(* also when upstream pages overlap, and the stats it caches count every   *)
(* event once (SpecPages).                                                 *)
(***************************************************************************)
NoDuplicateTid(tids) ==
    \A i, j \in DOMAIN tids : i # j => tids[i] # tids[j]

Cex_C31_WindowHasNoDuplicateTid ==
    /\ \A t \in DOMAIN passes :
          passes[t].pc \in {"setData", "setStats"} =>
              NoDuplicateTid(passes[t].allLiquidations)
    /\ IsSome(redis[STATS_WRITE_KEY]) =>
          Val(redis[STATS_WRITE_KEY]).stats.liquidationsCount <= upstreamTid

(***************************************************************************)
(* C32: a read of /liquidations/recent or /liquidations/data whose         *)
(* upstream call was answered with HTTP 429 is answered with HTTP 429, not *)
(* 500 (SpecErrors).                                                       *)
(***************************************************************************)
Cex_C32_RateLimitAnsweredWith429 ==
    \A id \in DOMAIN reads :
        (reads[id].pc = "done" /\ reads[id].upstream = Some(429)) =>
            reads[id].status = 429

(***************************************************************************)
(* C33: a finished resume replay has written at most MISSED_DATA_LIMIT     *)
(* events, and when more events than that were missed the session was sent *)
(* a truncated signal (SpecReplay).                                        *)
(***************************************************************************)
Cex_C33_ReplayBoundedAndTruncationSignalled ==
    \A c \in DOMAIN responses :
        responses[c].replay.state = "done" =>
            LET replayed == SelectSeq(responses[c].frames, LAMBDA f : f.via = "replay")
                missed == {t \in 1..upstreamTid : t > responses[c].replay.from}
            IN /\ Len(replayed) <= MISSED_DATA_LIMIT
               /\ Cardinality(missed) > MISSED_DATA_LIMIT =>
                     \E i \in DOMAIN responses[c].frames :
                         responses[c].frames[i].type = "truncated"

(***************************************************************************)
(* C34: a pass issues at most MAX_PAGES_FOR_STATS fetches, no fetch after  *)
(* a page whose has_more is false, the first fetch without a cursor and    *)
(* every later one with the next_cursor of the page before it; and when    *)
(* every fetch returns, the page loop of every pass ends (SpecPagesFair).  *)
(***************************************************************************)
PageDrain(p) ==
    /\ Len(p.requested) <= MAX_PAGES_FOR_STATS
    /\ Len(p.requested) = Len(p.pages) + (IF p.pc = "fetch" THEN 1 ELSE 0)
    /\ \A i \in DOMAIN p.pages : i < Len(p.requested) => p.pages[i].has_more
    /\ p.requested[1] = None
    /\ \A i \in DOMAIN p.requested : i > 1 => p.requested[i] = p.pages[i - 1].next_cursor

Thm_C34_PageDrain ==
    /\ [](\A t \in DOMAIN passes : PageDrain(passes[t]))
    /\ \A t \in 1..MaxTicks :
          (t \in DOMAIN passes /\ passes[t].pc = "fetch")
              ~> ~(t \in DOMAIN passes /\ passes[t].pc = "fetch")

\* a pass stopped by the page limit: the last page still had a successor
Wit_C34_StoppedByPageLimit ==
    \E t \in DOMAIN passes :
        /\ passes[t].pc = "setData"
        /\ passes[t].pagesLoaded = MAX_PAGES_FOR_STATS
        /\ passes[t].hasMore
        /\ Len(passes[t].requested) = MAX_PAGES_FOR_STATS

(***************************************************************************)
(* C35: whenever the guard isRefreshing is set, it is cleared again later, *)
(* whether the pass succeeds or fails at any of its awaits                 *)
(* (SpecRefreshFair).                                                      *)
(***************************************************************************)
Thm_C35_RefreshReturnsToIdle == isRefreshing ~> ~isRefreshing

\* a pass has failed at its last await and a later tick started a new pass
Wit_C35_IdleAfterLateFailure ==
    /\ lastPass.outcome = "failed"
    /\ lastPass.at = "setStats"
    /\ \E t \in DOMAIN passes : t > lastPass.tick

(***************************************************************************)
(* C36 (SpecViews): bucket i of a period holds exactly the events e of the *)
(* list with floor((time(e) - start) / width) = i, start being the clock   *)
(* read of the aggregation minus the period; an event before start or at   *)
(* or after start + k * width is in no bucket; every event of a bucket     *)
(* adds one to its count and to one of longCount and shortCount, and its   *)
(* notional to the total and to the volume of the same side (rounded to    *)
(* cents when published).                                                  *)
(***************************************************************************)
RECURSIVE SumNotional(_)
SumNotional(liquidations) ==
    IF liquidations = <<>> THEN 0
    ELSE Head(liquidations).notional_total + SumNotional(Tail(liquidations))

EventsOfBucket(period, i) ==
    LET config == PERIOD_CONFIG(period)
        start == calc.bucketNow - config.hours * 60 * 60 * 1000
    IN SelectSeq(calc.liquidations,
                 LAMBDA e : /\ getTime(e.time) >= start + (i - 1) * config.intervalMs
                            /\ getTime(e.time) < start + i * config.intervalMs)

Thm_C36_BucketAssignment ==
    calc.done =>
        \A period \in Periods :
            \A i \in DOMAIN BucketsOf(period) :
                LET b == BucketsOf(period)[i]
                    es == EventsOfBucket(period, i)
                    longs == SelectSeq(es, LAMBDA e : e.liq_dir = "Long")
                    shorts == SelectSeq(es, LAMBDA e : e.liq_dir # "Long")
                IN /\ b.liquidationsCount = Len(es)
                   /\ b.longCount = Len(longs)
                   /\ b.shortCount = Len(shorts)
                   /\ b.totalVolume = Round2(SumNotional(es))
                   /\ b.longVolume = Round2(SumNotional(longs))
                   /\ b.shortVolume = Round2(SumNotional(shorts))

\* C36 witness: the event at the start of the 2h window and the event after
\* now were aggregated with a later second clock read: neither is in a
\* bucket of the 2h chart, the second is in no bucket of any chart
Wit_C36_EventsOutsideTheGrid ==
    /\ calc.done
    /\ calc.bucketNow > calc.now
    /\ {e.tid : e \in Range(calc.liquidations)} = {3, 4}
    /\ NonZeroBuckets("2h") = {}
    /\ Cardinality(NonZeroBuckets("4h")) = 1

(***************************************************************************)
(* C37 (SpecAttach): the first frame written to an admitted session is its *)
(* connected frame, and it is the only connected frame: no replayed or     *)
(* live liquidation and no heartbeat is written before it.                 *)
(***************************************************************************)
Thm_C37_ConnectedFrameFirst ==
    \A c \in DOMAIN responses :
        LET frames == responses[c].frames
        IN /\ responses[c].status = 200 => (frames # <<>> /\ frames[1] = ConnectedFrame)
           /\ \A i \in DOMAIN frames : i > 1 => frames[i].type # "connected"
           /\ responses[c].status # 200 => frames = <<>>

\* C37 witness: a resumed session was written its connected frame, a
\* replayed event and a heartbeat, while another session is attached
Wit_C37_ReplayAndHeartbeatAfterConnected ==
    \E c \in DOMAIN responses :
        /\ Len(responses[c].frames) >= 3
        /\ responses[c].frames[2].via = "replay"
        /\ \E i \in DOMAIN responses[c].frames : responses[c].frames[i].type = "heartbeat"
        /\ Cardinality(DOMAIN clients) = 2

(***************************************************************************)
(* C38 (SpecRegistry): in every state reached by attach, detach, failed    *)
(* writes, heartbeat ticks and shutdown, the counter of every IP is the    *)
(* number of registered sessions of that IP, no counter entry is zero or   *)
(* negative, and getStats reports the number of registered sessions and    *)
(* the number of distinct IPs among them.                                  *)
(***************************************************************************)
Thm_C38_RegistryCountersConsistent ==
    /\ \A ip \in DOMAIN ipConnectionCount :
          /\ ipConnectionCount[ip] >= 1
          /\ ipConnectionCount[ip] = Cardinality({c \in DOMAIN clients : clients[c].ip = ip})
    /\ \A c \in DOMAIN clients : clients[c].ip \in DOMAIN ipConnectionCount
    /\ getStats.totalConnections = Cardinality(DOMAIN clients)
    /\ getStats.uniqueIps = Cardinality({clients[c].ip : c \in DOMAIN clients})

\* C38 witness: sessions were ended by a shutdown, a session attached
\* afterwards, and a close handler has run for an ended session
Wit_C38_AttachAfterShutdown ==
    /\ ~heartbeatTimer
    /\ \E c \in DOMAIN responses :
          /\ c \notin DOMAIN clients
          /\ responses[c].frames # <<>>
          /\ responses[c].frames[Len(responses[c].frames)] = EndFrame
          /\ c \in DOMAIN detaches
    /\ getStats = [totalConnections |-> 1, uniqueIps |-> 1]

(***************************************************************************)
(* C39 (SpecInitialize): however many times initialize is called, calls    *)
(* overlapping a pending subscribe included, the manager has registered    *)
(* its handler on the broadcast channel at most once and runs at most one  *)
(* heartbeat interval.                                                     *)
(***************************************************************************)
Cex_C39_SubscribedAtMostOnce ==
    /\ subscription.handlers <= 1
    /\ subscription.intervals <= 1

(***************************************************************************)
(* C40 (SpecRead): a build of getAllStats whose upstream fetch failed is   *)
(* never cached: the stats key the endpoint reads never holds a result     *)
(* with success false, and no call of getAllStats is answered with such a  *)
(* result from the cache.                                                  *)
(***************************************************************************)
Cex_C40_FailedBuildNeverCached ==
    /\ IsSome(redis[STATS_READ_KEY]) => Val(redis[STATS_READ_KEY]).success
    /\ \A r \in DOMAIN reads :
          (reads[r].endpoint = "getAllStats" /\ reads[r].pc = "done" /\ reads[r].fetches = 0)
              => Val(reads[r].result).success
====
